---- MODULE Spec2Model ----
(***************************************************************************)
(* Three-phase turn orchestration of TRPG-World (backend/app):             *)
(*   services/background_task_manager.py  BackgroundTaskManager            *)
(*   services/stream_buffer.py            StreamBuffer, StreamBufferManager*)
(*   services/ai_gm_service_v2.py         AIGMServiceV2                    *)
(*   services/dice_system.py              DiceSystem                       *)
(*   services/session_state_manager.py    SessionStateManager              *)
(*   socket_server.py                     the socket event handlers        *)
(* Every coroutine is cut at its await points: one action is the code that *)
(* runs between two suspensions of the asyncio event loop.                 *)
(***************************************************************************)
EXTENDS Integers, Sequences, FiniteSets, TLC

\* ------------------------------------------------------------------ bounds
MaxCalls == 3        \* client events (handler invocations) in one behaviour
MaxTokens == 2       \* fragments the narrator streams in one generation
MaxSupCalls == 4     \* start_task / shutdown calls in the supervisor-only specification
MaxSubmits == 2      \* phase-1 submissions (submit_player_action, commit_actions)
MaxBufferCalls == 4  \* method calls on the buffer in the buffer-only specification
MaxNow == 3          \* ticks of the clock in the registry-only specification
MaxBuffers == 2      \* buffers created in the registry-only specification
MaxSweeps == 2       \* sweeps in the registry-only specification
MaxTrackerCalls == 4 \* method calls in the tracker-only specification

\* ------------------------------------------------------- program constants
DEFAULT_MAX_SIZE == 100000      \* StreamBuffer max_size default
DEFAULT_DIFFICULTY == 15        \* DC used before / without the judge

Rooms == {1}                    \* game session ids
SupRooms == {1, 2}              \* session ids of the supervisor-only specification
Actors == {1, 2}                \* character ids
Dice == {1, 12}                 \* values random.randint(1, 20) draws in the model
Difficulties == {DEFAULT_DIFFICULTY}
AbilityScore == [a \in Actors |-> IF a = 1 THEN 16 ELSE 7]   \* dexterity of each character
Batches == {<<1, 2>>}           \* action queues commit_actions is called with

NoError == "none"
NoProc == <<"none", 0>>
NoRooms == [r \in {} |-> 0]      \* an empty dict keyed by session id

VARIABLES
    judgments,    \* table action_judgments: sequence of rows, id = index
    story_logs,   \* table story_logs: sequence of rows, id = index
    buffers,      \* StreamBufferManager.buffers: session id -> StreamBuffer object (0: absent)
    heap,         \* the StreamBuffer objects ever constructed
    tasks,        \* BackgroundTaskManager.tasks: session id -> asyncio.Task (0: absent)
    taskobj,      \* the asyncio.Task objects ever created by start_task
    lock,         \* BackgroundTaskManager._lock (asyncio.Lock): holder and FIFO waiters
    calls,        \* frames of the socket handlers / direct supervisor calls
    emitted,      \* events given to sio.emit
    session_states,  \* SessionStateManager._session_states: session id -> RoundState (absent: not in the domain)
    round_counters,  \* SessionStateManager._round_counters: session id -> int (absent: not in the domain)
    now,          \* datetime.utcnow(), counted in ticks
    game_sessions,         \* table game_sessions: session id -> is_active (absent: not in the domain)
    session_participants   \* table session_participants: pairs <<session id, user id>>

vars == <<judgments, story_logs, buffers, heap, tasks, taskobj, lock, calls, emitted,
          session_states, round_counters, now, game_sessions, session_participants>>

\* the tables of rooms and of their participants: only the participant
\* management of socket_server.py and the session routes touch them
db_rooms == <<game_sessions, session_participants>>

\* the readiness tracker and the clock: no handler of socket_server.py, no
\* method of the supervisor or of a StreamBuffer reads or writes them
tracker == <<session_states, round_counters>>

\* ------------------------------------------------------------ pure helpers
RECURSIVE Flatten(_)
Flatten(ss) == IF ss = << >> THEN << >> ELSE Head(ss) \o Flatten(Tail(ss))

SetMax(S) == CHOOSE x \in S : \A y \in S : y <= x

\* faulty variant of calculate_ability_modifier: the quotient is truncated
\* toward zero
calculate_ability_modifierTruncated(ability_score) ==
    IF ability_score >= 10 THEN (ability_score - 10) \div 2
    ELSE -((10 - ability_score) \div 2)

\* DiceSystem.calculate_ability_modifier: (ability_score - 10) // 2
calculate_ability_modifier(ability_score) == (ability_score - 10) \div 2

RECURSIVE SumSeq(_)
SumSeq(ns) == IF ns = << >> THEN 0 ELSE Head(ns) + SumSeq(Tail(ns))

\* DiceSystem.apply_status_effects: every effect's modifier is added
apply_status_effects(base_modifier, character) ==
    base_modifier + SumSeq(character.status_effects)

\* DiceSystem.calculate_modifier: ability modifier, skill bonus 0, status effects
calculate_modifier(character, action_type) ==
    apply_status_effects(calculate_ability_modifier(character.scores[action_type]) + 0,
                         character)

\* judgment_node._calculate_modifier: the mapped ability alone
_calculate_modifier(character, action_type) ==
    (character.scores[action_type] - 10) \div 2

\* faulty variant of determine_outcome: the total is compared first, a natural
\* 1 or 20 decides only between the two kinds of success or of failure
determine_outcomeTotalFirst(dice_result, modifier, difficulty) ==
    IF dice_result + modifier >= difficulty
    THEN (IF dice_result = 20 THEN "critical_success" ELSE "success")
    ELSE (IF dice_result = 1 THEN "critical_failure" ELSE "failure")

\* DiceSystem.determine_outcome
determine_outcome(dice_result, modifier, difficulty) ==
    IF dice_result = 1 THEN "critical_failure"
    ELSE IF dice_result = 20 THEN "critical_success"
    ELSE IF dice_result + modifier >= difficulty THEN "success"
    ELSE "failure"

\* ------------------------------------------------------------ StreamBuffer
NewBuffer(session_id, max_size) ==
    [session_id |-> session_id, tokens |-> << >>, is_complete |-> FALSE,
     error |-> NoError, max_size |-> max_size, total_chars |-> 0,
     created_at |-> now]

\* faulty variant of the size check below: nothing ever exceeds the limit
ExceedsNever(b, token) == FALSE

\* add_token: self._total_chars + token_length > self.max_size
Exceeds(b, token) == b.total_chars + Len(token) > b.max_size

\* faulty variant of add_token: the complete / error check is lost
add_tokenAfterEnd(b, token) ==
    IF Exceeds(b, token)
    THEN [buf |-> [b EXCEPT !.is_complete = TRUE], ok |-> FALSE]
    ELSE [buf |-> [b EXCEPT !.tokens = Append(@, token),
                            !.total_chars = @ + Len(token)],
          ok |-> TRUE]

\* StreamBuffer.add_token: the buffer afterwards and the returned flag
add_token(b, token) ==
    IF b.is_complete \/ b.error # NoError
    THEN [buf |-> b, ok |-> FALSE]
    ELSE IF Exceeds(b, token)
    THEN [buf |-> [b EXCEPT !.is_complete = TRUE], ok |-> FALSE]
    ELSE [buf |-> [b EXCEPT !.tokens = Append(@, token),
                            !.total_chars = @ + Len(token)],
          ok |-> TRUE]

\* self.tokens[start:]: the slice of a Python list from a start that may be
\* negative (counted from the end) or lie past the end
SliceFrom(tokens, start) ==
    LET n == Len(tokens)
        s == IF start < 0 THEN (IF n + start < 0 THEN 0 ELSE n + start)
             ELSE (IF start > n THEN n ELSE start)
    IN  [i \in 1..(n - s) |-> tokens[s + i]]

\* faulty variant of get_tokens: a negative start_index is not set to 0
get_tokensFromEnd(b, start_index) == SliceFrom(b.tokens, start_index)

\* StreamBuffer.get_tokens
get_tokens(b, start_index) ==
    SliceFrom(b.tokens, IF start_index < 0 THEN 0 ELSE start_index)

mark_complete(b) == [b EXCEPT !.is_complete = TRUE]

mark_error(b, error) == [b EXCEPT !.error = error, !.is_complete = TRUE]

\* faulty variant of get_full_text: the tokens are joined last to first
get_full_textReversed(b) ==
    Flatten([i \in 1..Len(b.tokens) |-> b.tokens[Len(b.tokens) + 1 - i]])

\* StreamBuffer.get_full_text: "".join(self.tokens)
get_full_text(b) == Flatten(b.tokens)

\* ------------------------------------------------- asyncio.Lock (FIFO, fair)
LockFree(lk) == lk.holder = NoProc /\ lk.waiters = << >>

Acquire(lk, p) ==
    IF LockFree(lk) THEN [lk EXCEPT !.holder = p]
    ELSE [lk EXCEPT !.waiters = Append(@, p)]

Release(lk) ==
    IF lk.waiters = << >> THEN [lk EXCEPT !.holder = NoProc]
    ELSE [holder |-> Head(lk.waiters), waiters |-> Tail(lk.waiters)]

\* a waiter whose acquire() is cancelled leaves the queue
Dequeue(lk, p) == [lk EXCEPT !.waiters = SelectSeq(@, LAMBDA q : q # p)]

TaskProc(t) == <<"task", t>>
CallProc(c) == <<"call", c>>
\* ------------------------------------------- BackgroundTaskManager: the tasks
\* An asyncio.Task running _run_with_timeout(session_id, coro_func, ...).
\*   st: "pending"  created, its coroutine has not run yet
\*       "running"  suspended inside coro_func, under asyncio.timeout
\*       "finally"  in the finally block, queued on self._lock
\*       "done"
\*   ran: the wrapper was entered (a task cancelled while pending never runs it)
NewTask(session_id, func) ==
    [session_id |-> session_id, func |-> func, st |-> "pending", ran |-> FALSE,
     cancel_req |-> FALSE, outcome |-> "none", buffer |-> 0, produced |-> 0]

Sup == [tasks |-> tasks, taskobj |-> taskobj, lock |-> lock]

DelTask(tk, r) == [tk EXCEPT ![r] = 0]

\* _run_with_timeout, the finally block: async with self._lock: del self.tasks[session_id]
Finally(sup, t, outcome) ==
    LET r == sup.taskobj[t].session_id
    IN  IF LockFree(sup.lock)
        THEN [tasks |-> DelTask(sup.tasks, r),
              taskobj |-> [sup.taskobj EXCEPT ![t].st = "done", ![t].outcome = outcome],
              lock |-> sup.lock]
        ELSE [tasks |-> sup.tasks,
              taskobj |-> [sup.taskobj EXCEPT ![t].st = "finally", ![t].outcome = outcome],
              lock |-> Acquire(sup.lock, TaskProc(t))]

SetSup(sup) ==
    /\ tasks' = sup.tasks
    /\ taskobj' = sup.taskobj
    /\ lock' = sup.lock

TaskIds == 1..Len(taskobj)

Active(t, st) ==
    /\ taskobj[t].st = st
    /\ ~taskobj[t].cancel_req

\* the fragment the narrator yields as its k-th in generation t (one character)
TokenOf(t, k) == <<10 * t + k>>

\* first step of a task: _generate_narrative_background looks its buffer up
TaskRun(t) ==
    /\ Active(t, "pending")
    /\ LET r == taskobj[t].session_id
       IN  IF taskobj[t].func = "narrative" /\ buffers[r] = 0
           THEN SetSup(Finally([Sup EXCEPT !.taskobj[t].ran = TRUE], t, "success"))
           ELSE /\ taskobj' = [taskobj EXCEPT ![t].st = "running",
                                  ![t].ran = TRUE,
                                  ![t].buffer = IF taskobj[t].func = "narrative"
                                                THEN buffers[r] ELSE 0]
                /\ UNCHANGED <<tasks, lock>>
    /\ UNCHANGED <<judgments, story_logs, buffers, heap, calls, emitted, tracker, now, db_rooms>>

\* async for token in generate_narrative_streaming(...): await buffer.add_token(token)
TaskToken(t) ==
    /\ Active(t, "running")
    /\ taskobj[t].func = "narrative"
    /\ taskobj[t].produced < MaxTokens
    /\ LET b == taskobj[t].buffer
           res == add_token(heap[b], TokenOf(t, taskobj[t].produced + 1))
           counted == [taskobj EXCEPT ![t].produced = @ + 1]
       IN  IF res.ok
           THEN /\ heap' = [heap EXCEPT ![b] = res.buf]
                /\ taskobj' = counted
                /\ UNCHANGED <<tasks, lock>>
           ELSE \* break, then buffer.mark_complete()
                /\ heap' = [heap EXCEPT ![b] = mark_complete(res.buf)]
                /\ SetSup(Finally([Sup EXCEPT !.taskobj = counted], t, "success"))
    /\ UNCHANGED <<judgments, story_logs, buffers, calls, emitted, tracker, now, db_rooms>>

\* the narrator's stream ends: buffer.mark_complete()
TaskComplete(t) ==
    /\ Active(t, "running")
    /\ taskobj[t].func = "narrative"
    /\ heap' = [heap EXCEPT ![taskobj[t].buffer] = mark_complete(@)]
    /\ SetSup(Finally(Sup, t, "success"))
    /\ UNCHANGED <<judgments, story_logs, buffers, calls, emitted, tracker, now, db_rooms>>

\* the narrator raises: except Exception: buffer.mark_error(...); the coroutine returns
TaskError(t) ==
    /\ Active(t, "running")
    /\ taskobj[t].func = "narrative"
    /\ heap' = [heap EXCEPT ![taskobj[t].buffer] = mark_error(@, "generation_failed")]
    /\ SetSup(Finally(Sup, t, "success"))
    /\ UNCHANGED <<judgments, story_logs, buffers, calls, emitted, tracker, now, db_rooms>>

\* asyncio.timeout expires: CancelledError is thrown into coro_func at its await.
\* CancelledError is a BaseException, so `except Exception` in
\* _generate_narrative_background does not run; the wrapper re-raises TimeoutError.
TaskTimeout(t) ==
    /\ Active(t, "running")
    /\ SetSup(Finally(Sup, t, "timeout"))
    /\ UNCHANGED <<judgments, story_logs, buffers, heap, calls, emitted, tracker, now, db_rooms>>

\* a coro_func other than the narrative producer returns / raises
GenericReturn(t) ==
    /\ Active(t, "running")
    /\ taskobj[t].func = "generic"
    /\ SetSup(Finally(Sup, t, "success"))
    /\ UNCHANGED <<judgments, story_logs, buffers, heap, calls, emitted, tracker, now, db_rooms>>

GenericRaise(t) ==
    /\ Active(t, "running")
    /\ taskobj[t].func = "generic"
    /\ SetSup(Finally(Sup, t, "error"))
    /\ UNCHANGED <<judgments, story_logs, buffers, heap, calls, emitted, tracker, now, db_rooms>>

\* task.cancel() takes effect at the task's next step
Cancelled(sup, t) ==
    LET tk == sup.taskobj[t]
        cleared == [sup.taskobj EXCEPT ![t].cancel_req = FALSE]
    IN  IF tk.st = "pending"
        THEN \* never started: no try/finally is entered
             [sup EXCEPT !.taskobj = [cleared EXCEPT ![t].st = "done",
                                                      ![t].outcome = "cancelled"]]
        ELSE IF tk.st = "running"
        THEN \* except CancelledError: raise, then the finally block
             Finally([sup EXCEPT !.taskobj = cleared], t, "cancelled")
        ELSE \* cancelled inside self._lock.acquire() of the finally block
             [sup EXCEPT !.taskobj = [cleared EXCEPT ![t].st = "done",
                                                      ![t].outcome = "cancelled"],
                         !.lock = Dequeue(@, TaskProc(t))]

TaskDeliverCancel(t) ==
    /\ taskobj[t].cancel_req
    /\ taskobj[t].st \in {"pending", "running", "finally"}
    /\ SetSup(Cancelled(Sup, t))
    /\ UNCHANGED <<judgments, story_logs, buffers, heap, calls, emitted, tracker, now, db_rooms>>

\* the finally block gets the lock: del self.tasks[session_id]
TaskFinally(t) ==
    /\ Active(t, "finally")
    /\ lock.holder = TaskProc(t)
    /\ tasks' = DelTask(tasks, taskobj[t].session_id)
    /\ taskobj' = [taskobj EXCEPT ![t].st = "done"]
    /\ lock' = Release(lock)
    /\ UNCHANGED <<judgments, story_logs, buffers, heap, calls, emitted, tracker, now, db_rooms>>
\* --------------------------------------------------------- handler frames
Null == -1000      \* SQL NULL in an integer column

NoResult == [status |-> "none", dice_roll |-> Null, modifier |-> Null, difficulty |-> Null]

NewCall(kind, session_id, actors, pc) ==
    [kind |-> kind, session_id |-> session_id, actors |-> actors, pc |-> pc,
     task |-> 0, started |-> 0, buffer |-> 0, index |-> 0, tokens |-> << >>, yielded |-> << >>,
     rows |-> << >>, log |-> 0, result |-> NoResult, session_ids |-> << >>]

CallIds == 1..Len(calls)

\* the frame of call c is stored; a new call gets the next id
PutCall(c, fr) == IF c > Len(calls) THEN Append(calls, fr) ELSE [calls EXCEPT ![c] = fr]

Event(event, session_id, character_id, call) ==
    [event |-> event, session_id |-> session_id, character_id |-> character_id, call |-> call]

\* ------------------------------------- BackgroundTaskManager.start_task
\* asyncio.create_task(self._run_with_timeout(...)); self.tasks[session_id] = task;
\* leaving `async with self._lock`
Register(sup, r, func) ==
    [tasks |-> [sup.tasks EXCEPT ![r] = Len(sup.taskobj) + 1],
     taskobj |-> Append(sup.taskobj, NewTask(r, func)),
     lock |-> Release(sup.lock)]

\* faulty variant of the body below: the session's task is replaced without
\* being cancelled and awaited
StartTaskBodyNoCancel(sup, r, func) ==
    [sup |-> Register([sup EXCEPT !.tasks = DelTask(@, r)], r, func), waiting |-> 0]

\* The body of start_task once self._lock is held by call c, up to its first
\* suspension: cancel_task() when the session has a task, else registration.
\* waiting = 0: start_task returned; otherwise the task whose end is awaited.
StartTaskBody(sup, r, func) ==
    LET t == sup.tasks[r]
    IN  IF t # 0 /\ sup.taskobj[t].st # "done"
        THEN \* cancel_task: task.cancel(); await task
             [sup |-> [sup EXCEPT !.taskobj[t].cancel_req = TRUE], waiting |-> t]
        ELSE \* no task, or a finished one that cancel_task just deletes
             [sup |-> Register([sup EXCEPT !.tasks = DelTask(@, r)], r, func), waiting |-> 0]

FuncOf(kind) == IF kind = "start_task" THEN "generic" ELSE "narrative"

\* what a handler does after `await task_manager.start_task(...)` returned
\* submit_player_action: the phase-1 row; both: the analysis events
PhaseOneRow(r, a, dc) ==
    [session_id |-> r, character_id |-> a, story_log_id |-> Null,
     dice_result |-> Null, modifier |-> calculate_ability_modifier(AbilityScore[a]),
     final_value |-> Null, difficulty |-> dc, outcome |-> "null", phase |-> 1]

AfterStartRows(js, fr) ==
    IF fr.kind = "submit_player_action"
    THEN Append(js, PhaseOneRow(fr.session_id, fr.actors[1], fr.result.difficulty))
    ELSE js

AfterStartEvents(c, fr) ==
    IF fr.kind = "start_task" THEN {}
    ELSE {Event("judgment_ready", fr.session_id, fr.actors[i], c) : i \in 1..Len(fr.actors)}

\* start_task from its `async with self._lock` on, for frame fr of call c whose
\* rows are js; the lock is free or was just granted to c
EnterStartTask(c, fr, js) ==
    LET res == StartTaskBody([Sup EXCEPT !.lock.holder = CallProc(c)],
                             fr.session_id, FuncOf(fr.kind))
    IN  /\ SetSup(res.sup)
        /\ IF res.waiting = 0
           THEN /\ calls' = PutCall(c, [fr EXCEPT !.pc = "done",
                                                   !.started = Len(res.sup.taskobj)])
                /\ judgments' = AfterStartRows(js, fr)
                /\ emitted' = emitted \cup AfterStartEvents(c, fr)
           ELSE /\ calls' = PutCall(c, [fr EXCEPT !.pc = "cancel_wait", !.task = res.waiting])
                /\ judgments' = js
                /\ UNCHANGED emitted

\* self._lock is taken: the caller queues
QueueStartTask(c, fr, js) ==
    /\ lock' = Acquire(lock, CallProc(c))
    /\ calls' = PutCall(c, [fr EXCEPT !.pc = "lock_wait"])
    /\ judgments' = js
    /\ UNCHANGED <<tasks, taskobj, emitted, tracker, now, db_rooms>>

\* a queued start_task is handed the lock
LockGranted(c) ==
    /\ calls[c].pc = "lock_wait"
    /\ lock.holder = CallProc(c)
    /\ EnterStartTask(c, calls[c], judgments)
    /\ UNCHANGED <<story_logs, buffers, heap, tracker, now, db_rooms>>

\* cancel_task: `await task` returns; del self.tasks[session_id]; then registration
CancelWaitDone(c) ==
    /\ calls[c].pc = "cancel_wait"
    /\ taskobj[calls[c].task].st = "done"
    /\ LET fr == calls[c]
       IN  /\ SetSup(Register([Sup EXCEPT !.tasks = DelTask(@, fr.session_id)],
                              fr.session_id, FuncOf(fr.kind)))
           /\ calls' = [calls EXCEPT ![c] = [fr EXCEPT !.pc = "done",
                                                       !.started = Len(taskobj) + 1]]
           /\ judgments' = AfterStartRows(judgments, fr)
           /\ emitted' = emitted \cup AfterStartEvents(c, fr)
    /\ UNCHANGED <<story_logs, buffers, heap, tracker, now, db_rooms>>

\* a direct call start_task(session_id, coro_func) (supervisor-only specification)
StartTask(r) ==
    /\ Len(calls) < MaxSupCalls
    /\ LET c == Len(calls) + 1
           fr == NewCall("start_task", r, << >>, "start_task")
       IN  IF LockFree(lock)
           THEN EnterStartTask(c, fr, judgments)
           ELSE QueueStartTask(c, fr, judgments)
    /\ UNCHANGED <<story_logs, buffers, heap, tracker, now, db_rooms>>

\* --------------------------------------- BackgroundTaskManager.shutdown
\* is_running: a task is registered for the session and it is not done
is_running(r) == tasks[r] # 0 /\ taskobj[tasks[r]].st # "done"

\* list(self.tasks.keys()): a dict keeps insertion order, and a key is always
\* deleted before it is set again, so the keys come in the order of their tasks
RECURSIVE KeysInOrder(_, _)
KeysInOrder(tk, rs) ==
    IF rs = {} THEN << >>
    ELSE LET r == CHOOSE x \in rs : \A y \in rs : tk[x] <= tk[y]
         IN  <<r>> \o KeysInOrder(tk, rs \ {r})

\* for session_id in session_ids: await self.cancel_task(session_id), up to the
\* first task that has to be awaited (waiting) or the end of the list (waiting = 0)
RECURSIVE ShutdownLoop(_, _)
ShutdownLoop(sup, ids) ==
    IF ids = << >> THEN [sup |-> sup, waiting |-> 0, session_ids |-> ids]
    ELSE LET r == Head(ids)
             t == sup.tasks[r]
         IN  IF t = 0
             THEN ShutdownLoop(sup, Tail(ids))
             ELSE IF sup.taskobj[t].st = "done"
             THEN ShutdownLoop([sup EXCEPT !.tasks = DelTask(@, r)], Tail(ids))
             ELSE [sup |-> [sup EXCEPT !.taskobj[t].cancel_req = TRUE],
                   waiting |-> t, session_ids |-> ids]

\* shutdown continues with the lock held by call c; leaving the loop releases it
ShutdownContinue(c, fr, sup, ids) ==
    LET res == ShutdownLoop(sup, ids)
    IN  IF res.waiting = 0
        THEN /\ SetSup([res.sup EXCEPT !.lock = Release(@)])
             /\ calls' = PutCall(c, [fr EXCEPT !.pc = "done", !.task = 0,
                                                !.session_ids = << >>])
        ELSE /\ SetSup(res.sup)
             /\ calls' = PutCall(c, [fr EXCEPT !.pc = "shutdown_wait",
                                                !.task = res.waiting,
                                                !.session_ids = res.session_ids])

\* shutdown from `async with self._lock` on
EnterShutdown(c, fr) ==
    ShutdownContinue(c, fr, [Sup EXCEPT !.lock.holder = CallProc(c)],
                     KeysInOrder(tasks, {r \in DOMAIN tasks : tasks[r] # 0}))

\* shutdown() is called, once, at application teardown
Shutdown ==
    /\ Len(calls) < MaxSupCalls
    /\ \A d \in CallIds : calls[d].kind # "shutdown"
    /\ LET c == Len(calls) + 1
           fr == NewCall("shutdown", 0, << >>, "shutdown")
       IN  IF LockFree(lock)
           THEN EnterShutdown(c, fr)
           ELSE /\ lock' = Acquire(lock, CallProc(c))
                /\ calls' = PutCall(c, [fr EXCEPT !.pc = "shutdown_lock"])
                /\ UNCHANGED <<tasks, taskobj>>
    /\ UNCHANGED <<judgments, story_logs, buffers, heap, emitted, tracker, now, db_rooms>>

\* the queued shutdown is handed the lock
ShutdownLockGranted(c) ==
    /\ calls[c].pc = "shutdown_lock"
    /\ lock.holder = CallProc(c)
    /\ EnterShutdown(c, calls[c])
    /\ UNCHANGED <<judgments, story_logs, buffers, heap, emitted, tracker, now, db_rooms>>

\* cancel_task inside shutdown: `await task` returns; del self.tasks[session_id];
\* the loop goes on
ShutdownCancelDone(c) ==
    /\ calls[c].pc = "shutdown_wait"
    /\ taskobj[calls[c].task].st = "done"
    /\ ShutdownContinue(c, calls[c],
                        [Sup EXCEPT !.tasks = DelTask(@, Head(calls[c].session_ids))],
                        Tail(calls[c].session_ids))
    /\ UNCHANGED <<judgments, story_logs, buffers, heap, emitted, tracker, now, db_rooms>>

\* ------------------------------------------------ phase 1 and the pre-roll
\* AIGMServiceV2._preroll_dice: one phase-0 row per analysis
\* faulty variant of the row below: the outcome is read off the total alone
PrerollRowByTotal(r, a, dice_roll, dc) ==
    LET modifier == calculate_ability_modifier(AbilityScore[a])
    IN  [session_id |-> r, character_id |-> a, story_log_id |-> Null,
         dice_result |-> dice_roll, modifier |-> modifier,
         final_value |-> dice_roll + modifier, difficulty |-> dc,
         outcome |-> IF dice_roll + modifier >= dc THEN "success" ELSE "failure",
         phase |-> 0]

PrerollRow(r, a, dice_roll, dc) ==
    LET modifier == calculate_ability_modifier(AbilityScore[a])
    IN  [session_id |-> r, character_id |-> a, story_log_id |-> Null,
         dice_result |-> dice_roll, modifier |-> modifier,
         final_value |-> dice_roll + modifier, difficulty |-> dc,
         outcome |-> determine_outcome(dice_roll, modifier, dc), phase |-> 0]

Preroll(js, r, actors, dice, dcs) ==
    js \o [i \in 1..Len(actors) |-> PrerollRow(r, actors[i], dice[i], dcs[i])]

\* StreamBufferManager.create_buffer: a fresh object replaces the registered one
CreateBuffer(hp, r) == Append(hp, NewBuffer(r, DEFAULT_MAX_SIZE))

Submissions ==
    Cardinality({c \in CallIds : calls[c].kind \in {"submit_player_action", "commit_actions"}})

\* analyze_actions once the judge answered (or fell back to DC 15):
\* _preroll_dice, create_buffer, start_task
AnalyzeActions(c, fr0) ==
    LET n == Len(fr0.actors)
        r == fr0.session_id
    IN  \E dice \in [1..n -> Dice], dcs \in [1..n -> Difficulties] :
           LET fr == [fr0 EXCEPT !.result.difficulty = dcs[1]]
               js == Preroll(judgments, r, fr.actors, dice, dcs)
           IN  /\ heap' = CreateBuffer(heap, r)
               /\ buffers' = [buffers EXCEPT ![r] = Len(heap) + 1]
               /\ IF LockFree(lock)
                  THEN EnterStartTask(c, fr, js)
                  ELSE QueueStartTask(c, fr, js)

\* submit_player_action. Nothing is written before the judge call returns, so
\* the event and the judge's answer are taken as one step.
SubmitPlayerAction(r, a) ==
    /\ Len(calls) < MaxCalls
    /\ Submissions < MaxSubmits
    /\ AnalyzeActions(Len(calls) + 1, NewCall("submit_player_action", r, <<a>>, "analyze"))
    /\ UNCHANGED <<story_logs, tracker, now, db_rooms>>

\* commit_actions: the USER story entry is committed, then analyze_actions
\* runs for the whole queue
CommitActions(r, batch) ==
    /\ Len(calls) < MaxCalls
    /\ Submissions < MaxSubmits
    /\ story_logs' = Append(story_logs,
           [session_id |-> r, role |-> "USER", content |-> [i \in 1..Len(batch) |-> -batch[i]]])
    /\ AnalyzeActions(Len(calls) + 1, NewCall("commit_actions", r, batch, "analyze"))
    /\ UNCHANGED <<tracker, now, db_rooms>>

\* ------------------------------------------------------ phase 2: roll_dice
RowsWith(js, r, a, p) ==
    {i \in 1..Len(js) : js[i].session_id = r /\ js[i].character_id = a /\ js[i].phase = p}

\* faulty variant of the query below: the phase filter is lost
LatestAnyPhase(js, r, a, p) ==
    LET rows == {i \in 1..Len(js) : js[i].session_id = r /\ js[i].character_id = a}
    IN  IF rows = {} THEN 0 ELSE SetMax(rows)

\* .filter(session_id, character_id, phase).order_by(id.desc()).first(); 0: no row
LatestWithPhase(js, r, a, p) ==
    IF RowsWith(js, r, a, p) = {} THEN 0 ELSE SetMax(RowsWith(js, r, a, p))

\* faulty variant of the confirmation below: the total also counts the
\* confirmations that arrived before this one
ConfirmedJudgmentByArrival(j) ==
    [j EXCEPT !.phase = 2,
              !.final_value = @ + Cardinality({i \in 1..Len(judgments) : judgments[i].phase = 2})]

\* confirm_dice_roll: judgment.phase = 2
ConfirmedJudgment(j) == [j EXCEPT !.phase = 2]

\* faulty variant of the result below: the total is returned as the die
DiceResultOfTotal(j) ==
    [status |-> "ok", dice_roll |-> j.final_value, modifier |-> j.modifier,
     difficulty |-> j.difficulty]

\* confirm_dice_roll: the DiceResult it returns
DiceResultOf(j) ==
    [status |-> "ok", dice_roll |-> j.dice_result, modifier |-> j.modifier,
     difficulty |-> j.difficulty]

\* roll_dice up to `await sio.emit("dice_rolled", ...)`, or its error path
RollDice(r, a) ==
    /\ Len(calls) < MaxCalls
    /\ LET c == Len(calls) + 1
           i == LatestWithPhase(judgments, r, a, 0)
           fr == NewCall("roll_dice", r, <<a>>, "dice_rolled")
       IN  IF i = 0
           THEN \* ValueError: rollback, dice_roll_error to the caller
                /\ calls' = Append(calls, [fr EXCEPT !.pc = "done", !.result.status = "error"])
                /\ emitted' = emitted \cup {Event("dice_roll_error", r, a, c)}
                /\ UNCHANGED judgments
           ELSE /\ judgments' = [judgments EXCEPT ![i] = ConfirmedJudgment(@)]
                /\ calls' = Append(calls,
                       [fr EXCEPT !.result = DiceResultOf(judgments[i]),
                                  !.rows = <<LatestWithPhase(judgments', r, a, 2)>>])
                /\ emitted' = emitted \cup {Event("dice_rolled", r, a, c)}
    /\ UNCHANGED <<story_logs, buffers, heap, tasks, taskobj, lock, tracker, now, db_rooms>>

PendingJudgments(js, r) == {i \in 1..Len(js) : js[i].session_id = r /\ js[i].phase = 0}

\* roll_dice after the broadcast: count the phase-0 rows, all_dice_rolled when none
RollDiceCheck(c) ==
    /\ calls[c].pc = "dice_rolled"
    /\ calls' = [calls EXCEPT ![c].pc = "done"]
    /\ emitted' = IF PendingJudgments(judgments, calls[c].session_id) = {}
                  THEN emitted \cup {Event("all_dice_rolled", calls[c].session_id, 0, c)}
                  ELSE emitted
    /\ UNCHANGED <<judgments, story_logs, buffers, heap, tasks, taskobj, lock, tracker, now, db_rooms>>
\* ------------------------------------- phase 3: request_narrative_stream
AiLog(r, text) == [session_id |-> r, role |-> "AI", content |-> text]

\* faulty variant of the update below: the phase filter is lost
NarratedJudgmentsAnyPhase(js, r, log) ==
    [i \in 1..Len(js) |->
        IF js[i].session_id = r
        THEN [js[i] EXCEPT !.story_log_id = log, !.phase = 3]
        ELSE js[i]]

\* _save_narrative_to_database: every phase-2 row of the session -> phase 3, linked
NarratedJudgments(js, r, log) ==
    [i \in 1..Len(js) |->
        IF js[i].session_id = r /\ js[i].phase = 2
        THEN [js[i] EXCEPT !.story_log_id = log, !.phase = 3]
        ELSE js[i]]

\* faulty variant of the transaction below: a failed commit keeps the flushed entry
SaveNarrativeNoRollback(js, sl, r, narrative, committed) ==
    [story_logs |-> Append(sl, AiLog(r, narrative)),
     judgments |-> IF committed THEN NarratedJudgments(js, r, Len(sl) + 1) ELSE js]

\* _save_narrative_to_database as one transaction: add, flush, update, commit;
\* or an exception on the way: rollback, nothing is persisted
SaveNarrative(js, sl, r, narrative, committed) ==
    IF committed
    THEN [story_logs |-> Append(sl, AiLog(r, narrative)),
          judgments |-> NarratedJudgments(js, r, Len(sl) + 1)]
    ELSE [story_logs |-> sl, judgments |-> js]

\* the end of stream_narrative (get_full_text, _save_narrative_to_database, whose
\* exception is logged and dropped) and of the handler (narrative_complete);
\* em: the events emitted so far
SaveAndComplete(c, fr, em) ==
    \E committed \in BOOLEAN :
        LET r == fr.session_id
            saved == SaveNarrative(judgments, story_logs, r,
                                   get_full_text(heap[fr.buffer]), committed)
        IN  /\ story_logs' = saved.story_logs
            /\ judgments' = saved.judgments
            /\ calls' = PutCall(c, [fr EXCEPT
                             !.pc = "done",
                             !.log = IF committed THEN Len(story_logs) + 1 ELSE 0,
                             !.result.status = IF committed THEN "ok" ELSE "save_failed"])
            /\ emitted' = em \cup {Event("narrative_complete", r, 0, c)}

\* while True: tokens = buffer.get_tokens(start_index=index); for token in tokens: yield ...
\* up to the first suspension: the first yield, the 0.1 s poll sleep, or the end
Fetch(c, fr, em) ==
    LET b == heap[fr.buffer]
        tokens == get_tokens(b, fr.index)
    IN  IF tokens # << >>
        THEN /\ calls' = PutCall(c, [fr EXCEPT !.pc = "yielding",
                                                !.yielded = Append(@, Head(tokens)),
                                                !.index = @ + 1,
                                                !.tokens = Tail(tokens)])
             /\ emitted' = em
             /\ UNCHANGED <<story_logs, judgments>>
        ELSE IF b.is_complete
        THEN SaveAndComplete(c, fr, em)
        ELSE /\ calls' = PutCall(c, [fr EXCEPT !.pc = "poll"])
             /\ emitted' = em
             /\ UNCHANGED <<story_logs, judgments>>

\* request_narrative_stream: narrative_stream_started, then stream_narrative
\* starts: the buffer lookup, the error check, the first fetch
RequestNarrativeStream(r) ==
    /\ Len(calls) < MaxCalls
    /\ LET c == Len(calls) + 1
           b == buffers[r]
           fr == NewCall("request_narrative_stream", r, << >>, "stream_started")
           em == emitted \cup {Event("narrative_stream_started", r, 0, c)}
       IN  IF b = 0 \/ (b # 0 /\ heap[b].error # NoError)
           THEN \* ValueError -> narrative_error
                /\ calls' = Append(calls, [fr EXCEPT !.pc = "done", !.result.status = "error"])
                /\ emitted' = em \cup {Event("narrative_error", r, 0, c)}
                /\ UNCHANGED <<story_logs, judgments>>
           ELSE Fetch(c, [fr EXCEPT !.buffer = b], em)
    /\ UNCHANGED <<buffers, heap, tasks, taskobj, lock, tracker, now, db_rooms>>

\* the consumer resumes after a yield and its 0.05 s sleep: the next token of
\* the fetched list, or at its end `if buffer.is_complete: break`
StreamResume(c) ==
    /\ calls[c].pc = "yielding"
    /\ LET fr == calls[c]
       IN  IF fr.tokens # << >>
           THEN /\ calls' = [calls EXCEPT ![c].yielded = Append(@, Head(fr.tokens)),
                                          ![c].index = @ + 1,
                                          ![c].tokens = Tail(@)]
                /\ UNCHANGED <<story_logs, judgments, emitted>>
           ELSE IF heap[fr.buffer].is_complete
           THEN SaveAndComplete(c, fr, emitted)
           ELSE /\ calls' = [calls EXCEPT ![c].pc = "poll"]
                /\ UNCHANGED <<story_logs, judgments, emitted>>
    /\ UNCHANGED <<buffers, heap, tasks, taskobj, lock, tracker, now, db_rooms>>

\* the consumer resumes after the 0.1 s poll sleep
StreamPoll(c) ==
    /\ calls[c].pc = "poll"
    /\ Fetch(c, calls[c], emitted)
    /\ UNCHANGED <<buffers, heap, tasks, taskobj, lock, tracker, now, db_rooms>>

\* ------------------------------------- phase 3: trigger_story_generation
DirectText == <<99>>     \* the text generate_narrative returns

RoomRowsWithPhase(js, r, p) == {i \in 1..Len(js) : js[i].session_id = r /\ js[i].phase = p}

RECURSIVE SetToSeq(_)
SetToSeq(S) == IF S = {} THEN << >>
               ELSE LET m == CHOOSE x \in S : \A y \in S : x <= y
                    IN  <<m>> \o SetToSeq(S \ {m})

\* trigger_story_generation: story_generation_started, the phase-2 rows are
\* read, generate_narrative suspends in the narrator call
TriggerStoryGeneration(r) ==
    /\ Len(calls) < MaxCalls
    /\ LET c == Len(calls) + 1
           rows == RoomRowsWithPhase(judgments, r, 2)
           fr == NewCall("trigger_story_generation", r, << >>, "narrating")
       IN  IF rows = {}
           THEN \* ValueError("No judgments found for story generation")
                /\ calls' = Append(calls, [fr EXCEPT !.pc = "done", !.result.status = "error"])
                /\ emitted' = emitted \cup {Event("story_generation_started", r, 0, c),
                                              Event("story_generation_error", r, 0, c)}
           ELSE /\ calls' = Append(calls, [fr EXCEPT !.rows = SetToSeq(rows)])
                /\ emitted' = emitted \cup {Event("story_generation_started", r, 0, c)}
    /\ UNCHANGED <<judgments, story_logs, buffers, heap, tasks, taskobj, lock, tracker, now, db_rooms>>

\* _save_results: the AI entry and one new phase-3 row per dice result
SavedResults(js, rows, r, log) ==
    js \o [k \in 1..Len(rows) |->
              LET j == js[rows[k]]
              IN  [session_id |-> r, character_id |-> j.character_id, story_log_id |-> log,
                   dice_result |-> j.dice_result, modifier |-> j.modifier,
                   final_value |-> j.dice_result + j.modifier, difficulty |-> j.difficulty,
                   outcome |-> determine_outcome(j.dice_result, j.modifier, j.difficulty),
                   phase |-> 3]]

\* the narrator answered: _save_results, then the chunks are emitted; or it raised
TriggerNarrated(c) ==
    /\ calls[c].pc = "narrating"
    /\ LET fr == calls[c]
           r == fr.session_id
           log == Len(story_logs) + 1
       IN  \/ /\ story_logs' = Append(story_logs, AiLog(r, DirectText))
              /\ judgments' = SavedResults(judgments, fr.rows, r, log)
              /\ calls' = [calls EXCEPT ![c].pc = "chunks", ![c].log = log]
              /\ UNCHANGED emitted
           \/ /\ calls' = [calls EXCEPT ![c].pc = "done", ![c].result.status = "error"]
              /\ emitted' = emitted \cup {Event("story_generation_error", r, 0, c)}
              /\ UNCHANGED <<story_logs, judgments>>
    /\ UNCHANGED <<buffers, heap, tasks, taskobj, lock, tracker, now, db_rooms>>

\* faulty variant of the update below: every row is advanced
PhaseThreeEveryRow(js, rows) ==
    [i \in 1..Len(js) |-> [js[i] EXCEPT !.phase = 3]]

\* for j in judgments: j.phase = 3; db.commit(); story_generation_complete
PhaseThree(js, rows) ==
    [i \in 1..Len(js) |->
        IF \E k \in 1..Len(rows) : rows[k] = i THEN [js[i] EXCEPT !.phase = 3] ELSE js[i]]

TriggerFinish(c) ==
    /\ calls[c].pc = "chunks"
    /\ judgments' = PhaseThree(judgments, calls[c].rows)
    /\ calls' = [calls EXCEPT ![c].pc = "done", ![c].result.status = "ok"]
    /\ emitted' = emitted \cup {Event("story_generation_complete", calls[c].session_id, 0, c)}
    /\ UNCHANGED <<story_logs, buffers, heap, tasks, taskobj, lock, tracker, now, db_rooms>>

\* ------------------------------------------------------- specifications
InitWith(rooms) ==
    /\ judgments = << >>
    /\ story_logs = << >>
    /\ buffers = [r \in rooms |-> 0]
    /\ heap = << >>
    /\ tasks = [r \in rooms |-> 0]
    /\ taskobj = << >>
    /\ lock = [holder |-> NoProc, waiters |-> << >>]
    /\ calls = << >>
    /\ emitted = {}
    /\ session_states = NoRooms
    /\ round_counters = NoRooms
    /\ now = 0
    /\ game_sessions = NoRooms
    /\ session_participants = {}

Init == InitWith(Rooms)

\* One room: a task reaches its finally block with the lock taken only when the
\* holder is the start_task that cancels this very task, and a start_task queues
\* on the lock only behind two earlier submissions; TaskFinally and LockGranted
\* are steps of the supervisor specification below.
Next ==
    \/ \E r \in Rooms, a \in Actors : SubmitPlayerAction(r, a)
    \/ \E r \in Rooms, batch \in Batches : CommitActions(r, batch)
    \/ \E r \in Rooms, a \in Actors : RollDice(r, a)
    \/ \E r \in Rooms : RequestNarrativeStream(r)
    \/ \E r \in Rooms : TriggerStoryGeneration(r)
    \/ \E c \in CallIds : CancelWaitDone(c)
    \/ \E c \in CallIds : RollDiceCheck(c)
    \/ \E c \in CallIds : StreamResume(c)
    \/ \E c \in CallIds : StreamPoll(c)
    \/ \E c \in CallIds : TriggerNarrated(c)
    \/ \E c \in CallIds : TriggerFinish(c)
    \/ \E t \in TaskIds : TaskRun(t)
    \/ \E t \in TaskIds : TaskToken(t)
    \/ \E t \in TaskIds : TaskComplete(t)
    \/ \E t \in TaskIds : TaskError(t)
    \/ \E t \in TaskIds : TaskTimeout(t)
    \/ \E t \in TaskIds : TaskDeliverCancel(t)

Spec == Init /\ [][Next]_vars

\* What the event loop does by itself in a room: suspended handlers and tasks
\* are resumed and the sleeps of the consumer end; the narrator's stream ends
\* one way or another (at the latest by the timeout). Clients are not obliged
\* to send events.
FairSpec ==
    /\ Spec
    /\ WF_vars(\/ \E c \in CallIds : CancelWaitDone(c) \/ RollDiceCheck(c)
               \/ \E c \in CallIds : StreamResume(c) \/ StreamPoll(c)
               \/ \E t \in TaskIds : TaskRun(t) \/ TaskDeliverCancel(t))
    /\ WF_vars(\E t \in TaskIds : TaskComplete(t) \/ TaskError(t) \/ TaskTimeout(t))

\* The supervisor on its own: start_task calls with an arbitrary coro_func
InitSup == InitWith(SupRooms)

NextSup ==
    \/ \E r \in SupRooms : StartTask(r)
    \/ Shutdown
    \/ \E c \in CallIds : LockGranted(c)
    \/ \E c \in CallIds : CancelWaitDone(c)
    \/ \E c \in CallIds : ShutdownLockGranted(c)
    \/ \E c \in CallIds : ShutdownCancelDone(c)
    \/ \E t \in TaskIds : TaskRun(t)
    \/ \E t \in TaskIds : GenericReturn(t)
    \/ \E t \in TaskIds : GenericRaise(t)
    \/ \E t \in TaskIds : TaskTimeout(t)
    \/ \E t \in TaskIds : TaskDeliverCancel(t)
    \/ \E t \in TaskIds : TaskFinally(t)

SpecSup == InitSup /\ [][NextSup]_vars

\* what the event loop does by itself: every ready coroutine is run
LoopStep ==
    \/ \E c \in CallIds : LockGranted(c) \/ CancelWaitDone(c)
    \/ \E c \in CallIds : ShutdownLockGranted(c) \/ ShutdownCancelDone(c)
    \/ \E t \in TaskIds : TaskRun(t) \/ TaskDeliverCancel(t) \/ TaskFinally(t)

\* a coro_func ends one way or another (at the latest by its timeout)
CoroStep == \E t \in TaskIds : GenericReturn(t) \/ GenericRaise(t) \/ TaskTimeout(t)

\* callers are not obliged to call start_task
FairSup == SpecSup /\ WF_vars(LoopStep) /\ WF_vars(CoroStep)

\* A StreamBuffer on its own, under any sequence of calls of its methods; the
\* calls and what they returned are recorded in `calls`.
BufferSizes == {2, 3}                       \* max_size the buffer is built with
BufferTokens == {<< >>, <<7>>, <<8, 9>>}    \* texts given to add_token

StartIndexes == -2..3                       \* start_index given to get_tokens

\* one method call on the buffer: its argument and what it returned
BufferCall(kind, token, ok) ==
    [kind |-> kind, token |-> token, ok |-> ok, start_index |-> 0, result |-> << >>]

InitBuffer ==
    /\ now = 0
    /\ heap \in {<<NewBuffer(1, max_size)>> : max_size \in BufferSizes}
    /\ buffers = [r \in Rooms |-> 1]
    /\ calls = << >>
    /\ judgments = << >>
    /\ story_logs = << >>
    /\ tasks = [r \in Rooms |-> 0]
    /\ taskobj = << >>
    /\ lock = [holder |-> NoProc, waiters |-> << >>]
    /\ emitted = {}
    /\ session_states = NoRooms
    /\ round_counters = NoRooms
    /\ game_sessions = NoRooms
    /\ session_participants = {}

AddToken(token) ==
    /\ Len(calls) < MaxBufferCalls
    /\ heap' = [heap EXCEPT ![1] = add_token(@, token).buf]
    /\ calls' = Append(calls, BufferCall("add_token", token, add_token(heap[1], token).ok))
    /\ UNCHANGED <<judgments, story_logs, buffers, tasks, taskobj, lock, emitted, tracker, now, db_rooms>>

MarkComplete ==
    /\ Len(calls) < MaxBufferCalls
    /\ heap' = [heap EXCEPT ![1] = mark_complete(@)]
    /\ calls' = Append(calls, BufferCall("mark_complete", << >>, TRUE))
    /\ UNCHANGED <<judgments, story_logs, buffers, tasks, taskobj, lock, emitted, tracker, now, db_rooms>>

MarkError ==
    /\ Len(calls) < MaxBufferCalls
    /\ heap' = [heap EXCEPT ![1] = mark_error(@, "generation_failed")]
    /\ calls' = Append(calls, BufferCall("mark_error", << >>, TRUE))
    /\ UNCHANGED <<judgments, story_logs, buffers, tasks, taskobj, lock, emitted, tracker, now, db_rooms>>

GetTokens(start_index) ==
    /\ Len(calls) < MaxBufferCalls
    /\ calls' = Append(calls, [BufferCall("get_tokens", << >>, TRUE) EXCEPT
                     !.start_index = start_index,
                     !.result = get_tokens(heap[1], start_index)])
    /\ UNCHANGED <<judgments, story_logs, buffers, heap, tasks, taskobj, lock, emitted, tracker, now, db_rooms>>

NextBuffer ==
    \/ \E token \in BufferTokens : AddToken(token)
    \/ MarkComplete
    \/ MarkError
    \/ \E start_index \in StartIndexes : GetTokens(start_index)

SpecBuffer == InitBuffer /\ [][NextBuffer]_vars

\* ------------------------------------ the buffer registry and its sweep alone
\* StreamBufferManager under any calls of its methods, with the clock moving
\* between them. No method suspends while it holds StreamBufferManager._lock,
\* so every method is one step.
ManagerRooms == {1, 2}                      \* session ids given to the registry
MaxAges == {1, 2}                           \* max_age_seconds given to the sweep

\* faulty variant of the sweep below: is_complete is not looked at
cleanup_old_buffersAnyState(bs, hp, t, max_age_seconds) ==
    [r \in DOMAIN bs |->
        IF bs[r] # 0 /\ t - hp[bs[r]].created_at > max_age_seconds
        THEN 0 ELSE bs[r]]

\* StreamBufferManager.cleanup_old_buffers: the registry after the sweep
cleanup_old_buffers(bs, hp, t, max_age_seconds) ==
    [r \in DOMAIN bs |->
        IF /\ bs[r] # 0
           /\ hp[bs[r]].is_complete
           /\ t - hp[bs[r]].created_at > max_age_seconds
        THEN 0 ELSE bs[r]]

\* one sweep: when it ran, with which window, and the to_remove list
SweepCall(max_age_seconds, to_remove) ==
    [kind |-> "cleanup_old_buffers", max_age_seconds |-> max_age_seconds,
     at |-> now, to_remove |-> to_remove]

CleanupOldBuffers(max_age_seconds) ==
    /\ Len(calls) < MaxSweeps
    /\ buffers' = cleanup_old_buffers(buffers, heap, now, max_age_seconds)
    /\ calls' = Append(calls, SweepCall(max_age_seconds,
                     {r \in DOMAIN buffers : buffers'[r] # buffers[r]}))
    /\ UNCHANGED <<judgments, story_logs, heap, tasks, taskobj, lock, emitted, tracker, now, db_rooms>>

ManagerCreateBuffer(r) ==
    /\ Len(heap) < MaxBuffers
    /\ heap' = CreateBuffer(heap, r)
    /\ buffers' = [buffers EXCEPT ![r] = Len(heap) + 1]
    /\ UNCHANGED <<judgments, story_logs, tasks, taskobj, lock, calls, emitted, tracker, now, db_rooms>>

\* StreamBufferManager.remove_buffer
RemoveBuffer(r) ==
    /\ buffers[r] # 0
    /\ buffers' = [buffers EXCEPT ![r] = 0]
    /\ UNCHANGED <<judgments, story_logs, heap, tasks, taskobj, lock, calls, emitted, tracker, now, db_rooms>>

\* the generation writing to a buffer ends it: mark_complete or mark_error
BufferEnds(b, failed) ==
    /\ ~heap[b].is_complete
    /\ heap' = [heap EXCEPT ![b] = IF failed THEN mark_error(@, "generation_failed")
                                             ELSE mark_complete(@)]
    /\ UNCHANGED <<judgments, story_logs, buffers, tasks, taskobj, lock, calls, emitted, tracker, now, db_rooms>>

\* datetime.utcnow() moves on
Tick ==
    /\ now < MaxNow
    /\ now' = now + 1
    /\ UNCHANGED <<judgments, story_logs, buffers, heap, tasks, taskobj, lock, calls, emitted, tracker,
                   db_rooms>>

InitManager == InitWith(ManagerRooms)

NextManager ==
    \/ \E r \in ManagerRooms : ManagerCreateBuffer(r)
    \/ \E r \in ManagerRooms : RemoveBuffer(r)
    \/ \E b \in 1..Len(heap), failed \in BOOLEAN : BufferEnds(b, failed)
    \/ Tick
    \/ \E max_age_seconds \in MaxAges : CleanupOldBuffers(max_age_seconds)

SpecManager == InitManager /\ [][NextManager]_vars

\* ------------------------------------------------- the dice system alone
\* The static methods of DiceSystem and the modifier of the analysis node
\* applied once to any arguments of their declared ranges: the initial state
\* holds the arguments, a step fills in the result.
ActionTypes == {"strength", "dexterity"}    \* two of the six ActionType values

\* a character whose mapped ability has the given score (the others 10)
CharacterWith(action_type, ability_score, status_effects) ==
    [scores |-> [t \in ActionTypes |-> IF t = action_type THEN ability_score ELSE 10],
     status_effects |-> status_effects]

\* ---- the analysis node (judgment_node.py) on any answer of the judge
\* one element of the JSON array the judge answers with: character_id (Null:
\* none) and difficulty, which is an integer ("int"), a value that is no
\* number ("str") or absent ("missing")
JudgeItem(character_id, kind, value) ==
    [character_id |-> character_id, kind |-> kind, value |-> value]

\* what the call of the judge gives: an exception ("raise"), a text without a
\* JSON array ("no_array"), a text json.loads rejects ("bad_json"), an array
\* whose elements are no objects ("not_objects"), or an array of objects
\* with up to two elements whose difficulty, when an integer, is -3, 18 or 99
JudgeResponses ==
    LET items == {JudgeItem(a, "int", d) : a \in Actors \cup {Null}, d \in {-3, 18, 99}}
                     \cup {JudgeItem(a, k, 0) : a \in Actors \cup {Null},
                                                k \in {"str", "missing"}}
    IN  {[kind |-> k, items |-> << >>] : k \in {"raise", "no_array", "bad_json", "not_objects"}}
            \cup {[kind |-> "array", items |-> << >>]}
            \cup {[kind |-> "array", items |-> <<i>>] : i \in items}
            \cup {[kind |-> "array", items |-> <<i, j>>] : i, j \in items}

\* judgment_node._parse_dc_response: character_id -> item.get("difficulty", 15);
\* a later element replaces an earlier one of the same character
_parse_dc_response(response) ==
    IF response.kind # "array" THEN [a \in {} |-> 0]
    ELSE LET items == response.items
             ids == {items[i].character_id : i \in 1..Len(items)} \ {Null}
             last(a) == items[SetMax({i \in 1..Len(items) : items[i].character_id = a})]
         IN  [a \in ids |->
                 IF last(a).kind = "missing"
                 THEN [kind |-> "int", value |-> DEFAULT_DIFFICULTY]
                 ELSE [kind |-> last(a).kind, value |-> last(a).value]]

\* faulty variant of the range check below: the difficulty is taken as given
ClampNothing(difficulty) == difficulty

\* max(5, min(30, analysis.difficulty))
Clamp(difficulty) ==
    IF difficulty > 30 THEN 30 ELSE IF difficulty < 5 THEN 5 ELSE difficulty

\* analyze_and_judge_actions. Step 1: an analysis with the default difficulty
\* for every action whose character is known, ValueError when there is none.
\* Step 2: the judge's difficulties or, after any exception, the default for all
analyze_and_judge_actions(player_actions, characters, response) ==
    LET known == SelectSeq(player_actions, LAMBDA a : a \in DOMAIN characters)
        analyses == [i \in 1..Len(known) |->
                        [character_id |-> known[i],
                         modifier |-> _calculate_modifier(characters[known[i]], "dexterity"),
                         difficulty |-> DEFAULT_DIFFICULTY]]
        dc_results == _parse_dc_response(response)
        given(a) == IF a \in DOMAIN dc_results THEN dc_results[a]
                    ELSE [kind |-> "int", value |-> DEFAULT_DIFFICULTY]
        failed == \/ response.kind = "raise"
                  \/ \E i \in 1..Len(analyses) : given(analyses[i].character_id).kind # "int"
    IN  IF analyses = << >>
        THEN [raised |-> "No valid actions to analyze", fallback |-> FALSE, analyses |-> << >>]
        ELSE IF failed
        THEN [raised |-> "none", fallback |-> TRUE, analyses |-> analyses]
        ELSE [raised |-> "none", fallback |-> FALSE,
              analyses |-> [i \in 1..Len(analyses) |->
                  [analyses[i] EXCEPT !.difficulty = Clamp(given(analyses[i].character_id).value)]]]

DiceCall(kind, args, result) ==
    [kind |-> kind, args |-> args, result |-> result, pc |-> "pending"]

\* the arguments of one behaviour: a die (d20), a modifier (ability scores
\* 1..30 give -5..10) and a difficulty (5..30) for determine_outcome; or an
\* ability score (CharacterSheet: ge=1, le=30), an action type and the
\* modifiers of the character's status effects for the three modifier
\* functions; or the actions (by acting character), the characters
\* load_game_context gives and the judge's answer for the analysis
InitDice ==
    /\ \/ calls \in
              {<<DiceCall("determine_outcome", <<dice_result, modifier, difficulty>>, "pending")>> :
                   dice_result \in 1..20, modifier \in -5..10, difficulty \in 5..30}
       \/ calls \in
              {<<DiceCall("calculate_ability_modifier", ability_score, 0),
                 DiceCall("_calculate_modifier",
                          [character |-> CharacterWith(action_type, ability_score, status_effects),
                           action_type |-> action_type], 0),
                 DiceCall("calculate_modifier",
                          [character |-> CharacterWith(action_type, ability_score, status_effects),
                           action_type |-> action_type], 0)>> :
                   ability_score \in 1..30, action_type \in ActionTypes,
                   status_effects \in {<< >>, <<-2>>, <<1>>, <<-2, 1>>, <<1, 1>>}}
       \/ calls \in
              {<<DiceCall("analyze_and_judge_actions",
                          [player_actions |-> player_actions, characters |-> characters,
                           response |-> response], 0)>> :
                   player_actions \in {<<1>>, <<1, 2>>},
                   characters \in UNION {[known -> {CharacterWith("dexterity", 16, << >>),
                                                     CharacterWith("dexterity", 7, <<-2, 1>>)}] :
                                             known \in SUBSET Actors},
                   response \in JudgeResponses}
    /\ judgments = << >>
    /\ story_logs = << >>
    /\ buffers = [r \in Rooms |-> 0]
    /\ heap = << >>
    /\ tasks = [r \in Rooms |-> 0]
    /\ taskobj = << >>
    /\ lock = [holder |-> NoProc, waiters |-> << >>]
    /\ emitted = {}
    /\ session_states = NoRooms
    /\ round_counters = NoRooms
    /\ now = 0
    /\ game_sessions = NoRooms
    /\ session_participants = {}

DetermineOutcome(c) ==
    /\ calls[c].kind = "determine_outcome"
    /\ calls[c].pc = "pending"
    /\ calls' = [calls EXCEPT ![c].pc = "done", ![c].result =
                     determine_outcome(calls[c].args[1], calls[c].args[2], calls[c].args[3])]
    /\ UNCHANGED <<judgments, story_logs, buffers, heap, tasks, taskobj, lock, emitted,
                   tracker, now, db_rooms>>

CalculateAbilityModifier(c) ==
    /\ calls[c].kind = "calculate_ability_modifier"
    /\ calls[c].pc = "pending"
    /\ calls' = [calls EXCEPT ![c].pc = "done",
                              ![c].result = calculate_ability_modifier(calls[c].args)]
    /\ UNCHANGED <<judgments, story_logs, buffers, heap, tasks, taskobj, lock, emitted,
                   tracker, now, db_rooms>>

NodeCalculateModifier(c) ==
    /\ calls[c].kind = "_calculate_modifier"
    /\ calls[c].pc = "pending"
    /\ calls' = [calls EXCEPT ![c].pc = "done",
                     ![c].result = _calculate_modifier(calls[c].args.character,
                                                       calls[c].args.action_type)]
    /\ UNCHANGED <<judgments, story_logs, buffers, heap, tasks, taskobj, lock, emitted,
                   tracker, now, db_rooms>>

CalculateModifier(c) ==
    /\ calls[c].kind = "calculate_modifier"
    /\ calls[c].pc = "pending"
    /\ calls' = [calls EXCEPT ![c].pc = "done",
                     ![c].result = calculate_modifier(calls[c].args.character,
                                                      calls[c].args.action_type)]
    /\ UNCHANGED <<judgments, story_logs, buffers, heap, tasks, taskobj, lock, emitted,
                   tracker, now, db_rooms>>

AnalyzeAndJudgeActions(c) ==
    /\ calls[c].kind = "analyze_and_judge_actions"
    /\ calls[c].pc = "pending"
    /\ calls' = [calls EXCEPT ![c].pc = "done",
                     ![c].result = analyze_and_judge_actions(calls[c].args.player_actions,
                                                             calls[c].args.characters,
                                                             calls[c].args.response)]
    /\ UNCHANGED <<judgments, story_logs, buffers, heap, tasks, taskobj, lock, emitted,
                   tracker, now, db_rooms>>

NextDice ==
    \/ \E c \in CallIds : DetermineOutcome(c)
    \/ \E c \in CallIds : CalculateAbilityModifier(c)
    \/ \E c \in CallIds : NodeCalculateModifier(c)
    \/ \E c \in CallIds : CalculateModifier(c)
    \/ \E c \in CallIds : AnalyzeAndJudgeActions(c)

SpecDice == InitDice /\ [][NextDice]_vars

\* ---------------------------------------------- the readiness tracker alone
\* SessionStateManager under any calls of its methods. Every method is
\* synchronous: one call is one step. Calls and what they returned are logged.
TrackerRooms == {1, 2}                      \* session ids given to the tracker
TrackerDice == {5, 7}                       \* dice_result given to record_dice_roll
Rosters == {<<1>>, <<1, 2>>}                \* character_ids given to initialize_round

\* a dict after d[k] = v / after del d[k]
Put(d, k, v) == [x \in DOMAIN d \cup {k} |-> IF x = k THEN v ELSE d[x]]
Del(d, k) == [x \in DOMAIN d \ {k} |-> d[x]]

\* faulty variant of the round state below: the roster also starts as rolled
RoundStateAllRolled(round_id, character_ids) ==
    [round_id |-> round_id,
     pending_characters |-> {character_ids[i] : i \in 1..Len(character_ids)},
     rolled_characters |-> {character_ids[i] : i \in 1..Len(character_ids)},
     analyses |-> [a \in {} |-> 0],
     dice_results |-> [a \in {} |-> 0]]

RoundState(round_id, character_ids) ==
    [round_id |-> round_id,
     pending_characters |-> {character_ids[i] : i \in 1..Len(character_ids)},
     rolled_characters |-> {},
     analyses |-> [a \in {} |-> 0],
     dice_results |-> [a \in {} |-> 0]]

\* SessionStateManager.initialize_round: both dicts afterwards and the round id
initialize_round(ss, rc, session_id, character_ids) ==
    LET round_id == (IF session_id \in DOMAIN rc THEN rc[session_id] ELSE 0) + 1
    IN  [states |-> Put(ss, session_id, RoundState(round_id, character_ids)),
         counters |-> Put(rc, session_id, round_id),
         result |-> round_id]

\* faulty variant of record_dice_roll: the pending check is lost
record_dice_rollAgain(ss, session_id, character_id, dice_result) ==
    IF session_id \notin DOMAIN ss
    THEN [states |-> ss, result |-> FALSE]
    ELSE [states |-> [ss EXCEPT
                 ![session_id].pending_characters = @ \ {character_id},
                 ![session_id].rolled_characters = @ \cup {character_id},
                 ![session_id].dice_results = Put(@, character_id, dice_result)],
          result |-> TRUE]

\* SessionStateManager.record_dice_roll (db is None): the states afterwards
\* and the returned flag
record_dice_roll(ss, session_id, character_id, dice_result) ==
    IF session_id \notin DOMAIN ss
    THEN [states |-> ss, result |-> FALSE]
    ELSE IF character_id \notin ss[session_id].pending_characters
    THEN [states |-> ss, result |-> FALSE]
    ELSE [states |-> [ss EXCEPT
                 ![session_id].pending_characters = @ \ {character_id},
                 ![session_id].rolled_characters = @ \cup {character_id},
                 ![session_id].dice_results = Put(@, character_id, dice_result)],
          result |-> TRUE]

\* faulty variant of check_all_rolled: a room without round state counts as
\* all rolled
check_all_rolledUnknown(ss, session_id) ==
    IF session_id \notin DOMAIN ss THEN TRUE
    ELSE Cardinality(ss[session_id].pending_characters) = 0

\* SessionStateManager.check_all_rolled
check_all_rolled(ss, session_id) ==
    IF session_id \notin DOMAIN ss THEN FALSE
    ELSE Cardinality(ss[session_id].pending_characters) = 0

\* SessionStateManager.get_dice_results
get_dice_results(ss, session_id) ==
    IF session_id \notin DOMAIN ss THEN [a \in {} |-> 0]
    ELSE ss[session_id].dice_results

\* SessionStateManager.get_pending_characters
get_pending_characters(ss, session_id) ==
    IF session_id \notin DOMAIN ss THEN {} ELSE ss[session_id].pending_characters

\* SessionStateManager.get_rolled_characters
get_rolled_characters(ss, session_id) ==
    IF session_id \notin DOMAIN ss THEN {} ELSE ss[session_id].rolled_characters

\* SessionStateManager.reset_round
reset_round(ss, session_id) ==
    IF session_id \in DOMAIN ss
    THEN [states |-> Del(ss, session_id), result |-> TRUE]
    ELSE [states |-> ss, result |-> FALSE]

\* faulty variant of clear_session: the dicts are emptied, not one key deleted
clear_sessionEveryRoom(ss, rc, session_id) ==
    [states |-> NoRooms, counters |-> NoRooms,
     result |-> session_id \in DOMAIN ss \/ session_id \in DOMAIN rc]

\* SessionStateManager.clear_session
clear_session(ss, rc, session_id) ==
    [states |-> Del(ss, session_id), counters |-> Del(rc, session_id),
     result |-> session_id \in DOMAIN ss \/ session_id \in DOMAIN rc]

\* one call of a tracker method: its arguments and what it returned
TrackerCall(kind, session_id, result) ==
    [kind |-> kind, session_id |-> session_id, character_ids |-> << >>,
     character_id |-> 0, dice_result |-> 0, result |-> result]

InitializeRound(session_id, character_ids) ==
    LET out == initialize_round(session_states, round_counters, session_id, character_ids)
    IN  /\ Len(calls) < MaxTrackerCalls
        /\ session_states' = out.states
        /\ round_counters' = out.counters
        /\ calls' = Append(calls, [TrackerCall("initialize_round", session_id, out.result)
                         EXCEPT !.character_ids = character_ids])
        /\ UNCHANGED <<judgments, story_logs, buffers, heap, tasks, taskobj, lock, emitted, now, db_rooms>>

RecordDiceRoll(session_id, character_id, dice_result) ==
    LET out == record_dice_roll(session_states, session_id, character_id, dice_result)
    IN  /\ Len(calls) < MaxTrackerCalls
        /\ session_states' = out.states
        /\ calls' = Append(calls, [TrackerCall("record_dice_roll", session_id, out.result)
                         EXCEPT !.character_id = character_id, !.dice_result = dice_result])
        /\ UNCHANGED <<judgments, story_logs, buffers, heap, tasks, taskobj, lock, emitted,
                       round_counters, now, db_rooms>>

CheckAllRolled(session_id) ==
    /\ Len(calls) < MaxTrackerCalls
    /\ calls' = Append(calls, TrackerCall("check_all_rolled", session_id,
                     check_all_rolled(session_states, session_id)))
    /\ UNCHANGED <<judgments, story_logs, buffers, heap, tasks, taskobj, lock, emitted,
                   tracker, now, db_rooms>>

GetDiceResults(session_id) ==
    /\ Len(calls) < MaxTrackerCalls
    /\ calls' = Append(calls, TrackerCall("get_dice_results", session_id,
                     get_dice_results(session_states, session_id)))
    /\ UNCHANGED <<judgments, story_logs, buffers, heap, tasks, taskobj, lock, emitted,
                   tracker, now, db_rooms>>

ResetRound(session_id) ==
    LET out == reset_round(session_states, session_id)
    IN  /\ Len(calls) < MaxTrackerCalls
        /\ session_states' = out.states
        /\ calls' = Append(calls, TrackerCall("reset_round", session_id, out.result))
        /\ UNCHANGED <<judgments, story_logs, buffers, heap, tasks, taskobj, lock, emitted,
                       round_counters, now, db_rooms>>

ClearSession(session_id) ==
    LET out == clear_session(session_states, round_counters, session_id)
    IN  /\ Len(calls) < MaxTrackerCalls
        /\ session_states' = out.states
        /\ round_counters' = out.counters
        /\ calls' = Append(calls, TrackerCall("clear_session", session_id, out.result))
        /\ UNCHANGED <<judgments, story_logs, buffers, heap, tasks, taskobj, lock, emitted, now, db_rooms>>

InitTracker == InitWith(TrackerRooms)

NextTracker ==
    \/ \E r \in TrackerRooms, ids \in Rosters : InitializeRound(r, ids)
    \/ \E r \in TrackerRooms, a \in Actors, d \in TrackerDice : RecordDiceRoll(r, a, d)
    \/ \E r \in TrackerRooms : CheckAllRolled(r)
    \/ \E r \in TrackerRooms : GetDiceResults(r)
    \/ \E r \in TrackerRooms : ResetRound(r)
    \/ \E r \in TrackerRooms : ClearSession(r)

SpecTracker == InitTracker /\ [][NextTracker]_vars

\* ------------------------------------ phase-1 submissions and their tasks
MaxRaceSubmits == 3

\* submit_player_action, as above, for up to MaxRaceSubmits submissions
SubmitAgain(r, a) ==
    /\ Submissions < MaxRaceSubmits
    /\ AnalyzeActions(Len(calls) + 1, NewCall("submit_player_action", r, <<a>>, "analyze"))
    /\ UNCHANGED <<story_logs, tracker, now, db_rooms>>

\* submissions of character 1 in one room with the producer tasks they
\* start: no roll_dice and no consumer
NextSubmissions ==
    \/ \E r \in Rooms, a \in {1} : SubmitAgain(r, a)
    \/ \E c \in CallIds : CancelWaitDone(c)
    \/ \E c \in CallIds : LockGranted(c)
    \/ \E t \in TaskIds : TaskRun(t)
    \/ \E t \in TaskIds : TaskToken(t)
    \/ \E t \in TaskIds : TaskComplete(t)
    \/ \E t \in TaskIds : TaskError(t)
    \/ \E t \in TaskIds : TaskTimeout(t)
    \/ \E t \in TaskIds : TaskDeliverCancel(t)

SpecSubmissions == Init /\ [][NextSubmissions]_vars

\* ------------------------------------------- participant management alone
MaxSessionCalls == 3

SessionIds == {1, 2}                        \* ids of rooms, known or not

get_participant_count(participants, session_id) ==
    Cardinality({p \in participants : p[1] = session_id})

\* faulty variant of the check below: the participant count is not looked at
check_and_deactivate_sessionAnyCount(sessions, participants, session_id) ==
    IF session_id \notin DOMAIN sessions \/ ~sessions[session_id]
    THEN [sessions |-> sessions, participants |-> participants, result |-> FALSE]
    ELSE [sessions |-> [sessions EXCEPT ![session_id] = FALSE],
          participants |-> {p \in participants : p[1] # session_id},
          result |-> TRUE]

\* check_and_deactivate_session up to its commit: the tables afterwards and
\* the value returned
check_and_deactivate_session(sessions, participants, session_id) ==
    IF get_participant_count(participants, session_id) > 0
    THEN [sessions |-> sessions, participants |-> participants, result |-> FALSE]
    ELSE IF session_id \notin DOMAIN sessions \/ ~sessions[session_id]
    THEN [sessions |-> sessions, participants |-> participants, result |-> FALSE]
    ELSE [sessions |-> [sessions EXCEPT ![session_id] = FALSE],
          participants |-> {p \in participants : p[1] # session_id},
          result |-> TRUE]

\* the whole function: the check, the commit, session_ended to the room
CheckAndDeactivateSession(session_id) ==
    LET out == check_and_deactivate_session(game_sessions, session_participants, session_id)
    IN  /\ Len(calls) < MaxSessionCalls
        /\ game_sessions' = out.sessions
        /\ session_participants' = out.participants
        /\ calls' = Append(calls, [kind |-> "check_and_deactivate_session",
                                   session_id |-> session_id, result |-> out.result])
        /\ emitted' = IF out.result
                      THEN emitted \cup {Event("session_ended", session_id, Null, Len(calls) + 1)}
                      ELSE emitted
        /\ UNCHANGED <<judgments, story_logs, buffers, heap, tasks, taskobj, lock, tracker, now>>

\* join_session: only into a room that exists and is active
AddParticipant(session_id, user_id) ==
    /\ session_id \in DOMAIN game_sessions
    /\ game_sessions[session_id]
    /\ session_participants' = session_participants \cup {<<session_id, user_id>>}
    /\ UNCHANGED <<judgments, story_logs, buffers, heap, tasks, taskobj, lock, calls, emitted,
                   tracker, now, game_sessions>>

RemoveParticipant(session_id, user_id) ==
    /\ <<session_id, user_id>> \in session_participants
    /\ session_participants' = session_participants \ {<<session_id, user_id>>}
    /\ UNCHANGED <<judgments, story_logs, buffers, heap, tasks, taskobj, lock, calls, emitted,
                   tracker, now, game_sessions>>

\* routes/sessions.py: the host restarts an ended room
RestartSession(session_id) ==
    /\ session_id \in DOMAIN game_sessions
    /\ ~game_sessions[session_id]
    /\ game_sessions' = [game_sessions EXCEPT ![session_id] = TRUE]
    /\ UNCHANGED <<judgments, story_logs, buffers, heap, tasks, taskobj, lock, calls, emitted,
                   tracker, now, session_participants>>

\* routes/sessions.py: the host deletes an ended room
DeleteSession(session_id) ==
    /\ session_id \in DOMAIN game_sessions
    /\ ~game_sessions[session_id]
    /\ game_sessions' = Del(game_sessions, session_id)
    /\ session_participants' = {p \in session_participants : p[1] # session_id}
    /\ UNCHANGED <<judgments, story_logs, buffers, heap, tasks, taskobj, lock, calls, emitted,
                   tracker, now>>

\* room 1 exists and is active, room 2 exists or not, active or not
InitSession ==
    /\ game_sessions \in {[r \in {1} |-> TRUE]} \cup [SessionIds -> BOOLEAN]
    /\ session_participants = {}
    /\ judgments = << >>
    /\ story_logs = << >>
    /\ buffers = [r \in Rooms |-> 0]
    /\ heap = << >>
    /\ tasks = [r \in Rooms |-> 0]
    /\ taskobj = << >>
    /\ lock = [holder |-> NoProc, waiters |-> << >>]
    /\ calls = << >>
    /\ emitted = {}
    /\ session_states = NoRooms
    /\ round_counters = NoRooms
    /\ now = 0

NextSession ==
    \/ \E r \in SessionIds : CheckAndDeactivateSession(r)
    \/ \E r \in SessionIds, user_id \in {1, 2} : AddParticipant(r, user_id)
    \/ \E r \in SessionIds, user_id \in {1, 2} : RemoveParticipant(r, user_id)
    \/ \E r \in SessionIds : RestartSession(r)
    \/ \E r \in SessionIds : DeleteSession(r)

SpecSession == InitSession /\ [][NextSession]_vars

\* ------------------------------------------------------------------ claims
PhaseThreeKinds == {"request_narrative_stream", "trigger_story_generation"}

\* C1: a start_task call that finds the session's earlier task not finished
\* cancels it and then proceeds: it eventually returns with its new task
\* registered for the session and the earlier task ended as cancelled.
C1_StartTaskReplaces ==
    \A c \in 1..MaxSupCalls :
        (c <= Len(calls) /\ calls[c].pc = "cancel_wait")
            ~> (/\ c <= Len(calls)
                /\ calls[c].pc = "done"
                /\ calls[c].task # 0
                /\ taskobj[calls[c].task].outcome = "cancelled"
                /\ tasks[calls[c].session_id] = calls[c].started)

\* C2: when stream_narrative has finished, the tokens it yielded, concatenated,
\* are the full text of its buffer, which is the content of the AI entry it
\* saved: no accepted token is skipped or yielded twice.
C2_StreamDeliversFullText ==
    \A c \in CallIds :
        (calls[c].kind = "request_narrative_stream" /\ calls[c].log # 0) =>
            /\ Flatten(calls[c].yielded) = get_full_text(heap[calls[c].buffer])
            /\ story_logs[calls[c].log].content = get_full_text(heap[calls[c].buffer])

\* C3: a narrative generation that ended by the supervisor's timeout leaves its
\* buffer errored: error set and is_complete true.
C3_TimeoutMarksBufferErrored ==
    \A t \in TaskIds :
        (taskobj[t].func = "narrative" /\ taskobj[t].outcome = "timeout") =>
            /\ heap[taskobj[t].buffer].error # NoError
            /\ heap[taskobj[t].buffer].is_complete

\* C4: phase 3 (the narrative stream or the manual trigger) begins for a room
\* only when no row of the room is still at phase 0.
C4_PhaseThreeAfterAllConfirmed ==
    [][\A c \in 1..Len(calls') :
          (/\ c > Len(calls)
           /\ calls'[c].kind \in PhaseThreeKinds
           /\ calls'[c].result.status # "error")
              => PendingJudgments(judgments, calls'[c].session_id) = {}]_vars

\* C5: the roll_dice step that finds no phase-0 row left in the room (the last
\* pending confirmation) starts phase 3 on the server, with no client request.
C5_LastConfirmStartsPhaseThree ==
    [][\A c \in CallIds :
          (/\ calls[c].pc = "dice_rolled"
           /\ calls'[c].pc = "done"
           /\ PendingJudgments(judgments, calls[c].session_id) = {})
              => \E d \in 1..Len(calls') :
                    /\ d > Len(calls)
                    /\ calls'[d].kind \in PhaseThreeKinds
                    /\ calls'[d].session_id = calls[c].session_id]_vars

\* C6: for each room and actor at most one row is at phase 0 or phase 2.
C6_OneOpenJudgmentPerActor ==
    \A r \in Rooms, a \in Actors :
        Cardinality(RowsWith(judgments, r, a, 0) \cup RowsWith(judgments, r, a, 2)) <= 1

\* C7: one round (one generation, one buffer) gets at most one AI story entry,
\* however many times its stream is requested.
C7_OneNarrativeEntryPerRound ==
    \A b \in 1..Len(heap) :
        Cardinality({c \in CallIds : /\ calls[c].kind = "request_narrative_stream"
                                     /\ calls[c].buffer = b
                                     /\ calls[c].log # 0}) <= 1

\* C8: an existing row stays, and its phase changes only from 0 to 2 or from
\* 2 to 3; so the phase never decreases and a row at phase 3 keeps it.
C8_PhaseOnlyAdvances ==
    [][/\ Len(judgments') >= Len(judgments)
       /\ \A i \in 1..Len(judgments) :
             judgments'[i].phase # judgments[i].phase =>
                 <<judgments[i].phase, judgments'[i].phase>> \in {<<0, 2>>, <<2, 3>>}]_vars

\* a pre-rolled row was confirmed and then narrated by a finished stream
C8_RowNarrated ==
    \E i \in 1..Len(judgments), c \in CallIds :
        /\ judgments[i].phase = 3
        /\ calls[c].kind = "request_narrative_stream"
        /\ calls[c].log # 0
        /\ judgments[i].story_log_id = calls[c].log

\* C9: confirm_dice_roll returns the die, modifier and difficulty stored in the
\* actor's most recent phase-0 row, values no step has changed since the
\* pre-roll, and the only thing it writes is that row's phase, 0 to 2.
C9_ConfirmReturnsStoredRoll ==
    [][/\ \A i \in 1..Len(judgments) :
             /\ judgments'[i].dice_result = judgments[i].dice_result
             /\ judgments'[i].modifier = judgments[i].modifier
             /\ judgments'[i].difficulty = judgments[i].difficulty
       /\ \A c \in 1..Len(calls') :
             (/\ c > Len(calls)
              /\ calls'[c].kind = "roll_dice"
              /\ calls'[c].result.status = "ok")
                 => LET open == RowsWith(judgments, calls'[c].session_id,
                                         calls'[c].actors[1], 0)
                    IN  /\ open # {}
                        /\ calls'[c].result.dice_roll = judgments[SetMax(open)].dice_result
                        /\ calls'[c].result.modifier = judgments[SetMax(open)].modifier
                        /\ calls'[c].result.difficulty = judgments[SetMax(open)].difficulty
                        /\ judgments' = [judgments EXCEPT ![SetMax(open)].phase = 2]]_vars

\* a confirmation took the later of two pre-rolled rows of an actor, whose
\* dice differ; the earlier one is still unconfirmed
C9_LatestRowConfirmed ==
    \E c \in CallIds, i, k \in 1..Len(judgments) :
        /\ calls[c].kind = "roll_dice"
        /\ calls[c].result.status = "ok"
        /\ i < k
        /\ judgments[i].session_id = calls[c].session_id
        /\ judgments[k].session_id = calls[c].session_id
        /\ judgments[i].character_id = calls[c].actors[1]
        /\ judgments[k].character_id = calls[c].actors[1]
        /\ judgments[i].phase = 0
        /\ judgments[k].phase = 2
        /\ judgments[k].dice_result = calls[c].result.dice_roll
        /\ judgments[i].dice_result # calls[c].result.dice_roll

\* C10: roll_dice fails exactly when the actor has no phase-0 row in the room;
\* the failure is a dice_roll_error to the caller and writes nothing. Whether a
\* confirmation succeeds depends on the rows alone, so an earlier failure does
\* not prevent a later submit and confirm.
C10_ConfirmWithoutPrerollFails ==
    [][\A c \in 1..Len(calls') :
          (c > Len(calls) /\ calls'[c].kind = "roll_dice") =>
              LET r == calls'[c].session_id
                  a == calls'[c].actors[1]
              IN  IF RowsWith(judgments, r, a, 0) = {}
                  THEN /\ calls'[c].result.status = "error"
                       /\ calls'[c].pc = "done"
                       /\ Event("dice_roll_error", r, a, c) \in emitted'
                       /\ judgments' = judgments
                       /\ story_logs' = story_logs
                  ELSE /\ calls'[c].result.status = "ok"
                       /\ Event("dice_rolled", r, a, c) \in emitted']_vars

\* a failed confirmation, then a submission of the same actor, then a
\* confirmation that succeeded
C10_RecoveredAfterFailure ==
    \E c, d, e \in CallIds :
        /\ c < d /\ d < e
        /\ calls[c].kind = "roll_dice" /\ calls[c].result.status = "error"
        /\ calls[d].kind \in {"submit_player_action", "commit_actions"}
        /\ calls[d].session_id = calls[c].session_id
        /\ \E k \in 1..Len(calls[d].actors) : calls[d].actors[k] = calls[c].actors[1]
        /\ calls[e].kind = "roll_dice" /\ calls[e].result.status = "ok"
        /\ calls[e].session_id = calls[c].session_id
        /\ calls[e].actors = calls[c].actors

\* C11: finalisation advances only rows at phase 2: a row reaches phase 3 only
\* from phase 2, a row is linked only in the step that takes it from 2 to 3 and
\* only to the entry added in that step, and a row at phase 0 when an AI entry
\* is persisted is left as it is.
C11_FinalisationSkipsUnconfirmed ==
    [][\A i \in 1..Len(judgments) :
          /\ (judgments'[i].phase = 3 /\ judgments[i].phase # 3) => judgments[i].phase = 2
          /\ judgments'[i].story_log_id # judgments[i].story_log_id =>
                 /\ judgments[i].phase = 2
                 /\ judgments'[i].phase = 3
                 /\ Len(story_logs') = Len(story_logs) + 1
                 /\ judgments'[i].story_log_id = Len(story_logs')
          /\ (/\ judgments[i].phase = 0
              /\ Len(story_logs') > Len(story_logs)
              /\ story_logs'[Len(story_logs')].role = "AI") => judgments'[i] = judgments[i]]_vars

\* a stream was finalised (row k is linked to its entry) while the earlier row i
\* of the room was unconfirmed; row i is still at phase 0 and unlinked
C11_UnconfirmedLeftBehind ==
    \E c \in CallIds, i, k \in 1..Len(judgments) :
        /\ calls[c].kind = "request_narrative_stream"
        /\ calls[c].log # 0
        /\ i < k
        /\ judgments[k].story_log_id = calls[c].log
        /\ judgments[i].session_id = judgments[k].session_id
        /\ judgments[i].phase = 0
        /\ judgments[i].story_log_id = Null

\* C12: the step in which a stream is finalised is all or nothing: either one AI
\* entry of the room is added and exactly the room's rows that were at phase 2
\* are at phase 3 and linked to it, or neither table changes.
C12_FinaliseAtomic ==
    [][\A c \in 1..Len(calls') :
          (/\ calls'[c].kind = "request_narrative_stream"
           /\ calls'[c].pc = "done"
           /\ calls'[c].result.status \in {"ok", "save_failed"}
           /\ (c > Len(calls) \/ calls[c].pc # "done"))
              => LET r == calls'[c].session_id
                     log == Len(story_logs) + 1
                 IN  \/ /\ Len(story_logs') = log
                        /\ SubSeq(story_logs', 1, Len(story_logs)) = story_logs
                        /\ story_logs'[log].role = "AI"
                        /\ story_logs'[log].session_id = r
                        /\ Len(judgments') = Len(judgments)
                        /\ \A i \in 1..Len(judgments) :
                              IF judgments[i].session_id = r /\ judgments[i].phase = 2
                              THEN judgments'[i] = [judgments[i] EXCEPT !.phase = 3,
                                                                         !.story_log_id = log]
                              ELSE judgments'[i] = judgments[i]
                     \/ /\ story_logs' = story_logs
                        /\ judgments' = judgments]_vars

\* a finalisation failed after actor's row was confirmed: no AI entry was added
\* since, and the row is still at phase 2 without a link
C12_SaveRolledBack ==
    \E c, d \in CallIds :
        /\ d < c
        /\ calls[c].kind = "request_narrative_stream"
        /\ calls[c].result.status = "save_failed"
        /\ calls[d].kind = "roll_dice"
        /\ calls[d].result.status = "ok"
        /\ calls[d].session_id = calls[c].session_id
        /\ judgments[calls[d].rows[1]].phase = 2
        /\ judgments[calls[d].rows[1]].story_log_id = Null
        /\ \A l \in 1..Len(story_logs) : story_logs[l].role # "AI"

\* C13: the direct path leaves what the streaming path leaves for the rows it
\* read at phase 2: no step of trigger_story_generation adds a row, and when it
\* completes, one AI entry was added and each of those rows is at phase 3 and
\* linked to that entry.
C13_DirectPathAsStreamPath ==
    [][\A c \in CallIds :
          (calls[c].kind = "trigger_story_generation" /\ calls'[c] # calls[c]) =>
              /\ Len(judgments') = Len(judgments)
              /\ (calls'[c].pc = "done" /\ calls'[c].result.status = "ok") =>
                     /\ calls'[c].log # 0
                     /\ \A k \in 1..Len(calls'[c].rows) :
                           /\ judgments'[calls'[c].rows[k]].phase = 3
                           /\ judgments'[calls'[c].rows[k]].story_log_id = calls'[c].log]_vars

\* C14: a stream whose buffer is errored ends with narrative_error: it is not
\* completed with narrative_complete and persists no AI entry.
C14_ErroredStreamReportsError ==
    \A c \in CallIds :
        (/\ calls[c].kind = "request_narrative_stream"
         /\ calls[c].pc = "done"
         /\ calls[c].buffer # 0
         /\ heap[calls[c].buffer].error # NoError)
            => /\ calls[c].log = 0
               /\ Event("narrative_complete", calls[c].session_id, 0, c) \notin emitted
               /\ Event("narrative_error", calls[c].session_id, 0, c) \in emitted

\* C15: once a task whose wrapper ran has ended, however it ended, and no later
\* task was started for its session, the session has no entry in the task map
\* and is_running is false for it.
C15_EndedTaskDeregistered ==
    \A t \in TaskIds :
        (/\ taskobj[t].st = "done"
         /\ taskobj[t].ran
         /\ \A u \in TaskIds : u > t => taskobj[u].session_id # taskobj[t].session_id)
            => /\ tasks[taskobj[t].session_id] = 0
               /\ ~is_running(taskobj[t].session_id)

\* C16: for each session at most one task started by the supervisor is
\* executing its wrapped function.
C16_OneRunningTaskPerRoom ==
    \A r \in DOMAIN tasks :
        Cardinality({t \in TaskIds : taskobj[t].session_id = r /\ taskobj[t].st = "running"}) <= 1

\* a session's task was cancelled by a later start_task, whose task now runs
C16_ReplacementRuns ==
    \E t, u \in TaskIds :
        /\ t < u
        /\ taskobj[t].session_id = taskobj[u].session_id
        /\ taskobj[t].outcome = "cancelled"
        /\ taskobj[u].st = "running"
        /\ tasks[taskobj[u].session_id] = u

\* C17: what happens to the task of one session does not keep a start_task of
\* another session from completing: a start_task that waits for the lock, for
\* a session no other call and no task belongs to, eventually returns.
C17_OtherRoomStartCompletes ==
    \A c \in 1..MaxSupCalls :
        (/\ c <= Len(calls)
         /\ calls[c].kind = "start_task"
         /\ calls[c].pc = "lock_wait"
         /\ \A d \in CallIds : d # c => calls[d].session_id # calls[c].session_id
         /\ \A t \in TaskIds : taskobj[t].session_id # calls[c].session_id)
            ~> (c <= Len(calls) /\ calls[c].pc = "done")

\* C18: a shutdown call eventually returns, and when it returns the task map is
\* empty and every task started before is done.
C18_ShutdownReturns ==
    \A c \in 1..MaxSupCalls :
        (c <= Len(calls) /\ calls[c].kind = "shutdown")
            ~> (/\ c <= Len(calls)
                /\ calls[c].pc = "done"
                /\ \A r \in DOMAIN tasks : tasks[r] = 0)

\* C19: once a buffer is complete or errored, a step leaves its tokens and its
\* character count as they are and is_complete true, and an add_token made in
\* that step returned false.
C19_TerminalBufferFrozen ==
    [][\A b \in 1..Len(heap) :
          (heap[b].is_complete \/ heap[b].error # NoError) =>
              /\ heap'[b].is_complete
              /\ heap'[b].tokens = heap[b].tokens
              /\ heap'[b].total_chars = heap[b].total_chars
              /\ (Len(calls') > Len(calls) /\ calls'[Len(calls')].kind = "add_token")
                     => ~calls'[Len(calls')].ok]_vars

\* add_token was called with a non-empty text after mark_complete or mark_error
\* and returned false
C19_AddAfterEnd ==
    \E i, k \in CallIds :
        /\ i < k
        /\ calls[i].kind \in {"mark_complete", "mark_error"}
        /\ calls[k].kind = "add_token"
        /\ calls[k].token # << >>
        /\ ~calls[k].ok

\* C20: the character count is the length of the accepted text and never
\* exceeds max_size; an add_token on an open buffer whose text would pass
\* max_size returns false and only sets is_complete: the tokens stay, nothing
\* is appended and no error is recorded.
C20_CeilingForcesCompletion ==
    [][\A b \in 1..Len(heap) :
          /\ heap'[b].total_chars <= heap'[b].max_size
          /\ heap'[b].total_chars = Len(get_full_text(heap'[b]))
          /\ (/\ Len(calls') > Len(calls)
              /\ calls'[Len(calls')].kind = "add_token"
              /\ ~heap[b].is_complete
              /\ heap[b].error = NoError
              /\ heap[b].total_chars + Len(calls'[Len(calls')].token) > heap[b].max_size)
                 => /\ ~calls'[Len(calls')].ok
                    /\ heap'[b] = [heap[b] EXCEPT !.is_complete = TRUE]
                    /\ heap'[b].error = NoError]_vars

\* the buffer holds accepted text and was completed by an add_token that did
\* not fit: neither mark_complete nor mark_error was ever called
C20_CompletedByCeiling ==
    /\ heap # << >>
    /\ heap[1].is_complete
    /\ heap[1].error = NoError
    /\ heap[1].tokens # << >>
    /\ heap[1].total_chars > 0
    /\ \A i \in CallIds : calls[i].kind = "add_token"
    /\ \E k \in CallIds : ~calls[k].ok

\* C21: after every step get_full_text() is the concatenation, in call order,
\* of the tokens of the add_token calls that returned true, and the token list
\* before the step is a prefix of the token list after it.
C21_FullTextIsAcceptedTokens ==
    [][\A b \in 1..Len(heap) :
          LET accepted == SelectSeq(calls', LAMBDA c : c.kind = "add_token" /\ c.ok)
          IN  /\ get_full_text(heap'[b]) = Flatten([i \in 1..Len(accepted) |-> accepted[i].token])
              /\ Len(heap[b].tokens) <= Len(heap'[b].tokens)
              /\ SubSeq(heap'[b].tokens, 1, Len(heap[b].tokens)) = heap[b].tokens]_vars

\* two different non-empty tokens were accepted and a later add_token was refused
C21_TwoAcceptedOneRefused ==
    /\ heap # << >>
    /\ Len(heap[1].tokens) = 2
    /\ heap[1].tokens[1] # heap[1].tokens[2]
    /\ heap[1].tokens[1] # << >> /\ heap[1].tokens[2] # << >>
    /\ \E k \in CallIds : calls[k].kind = "add_token" /\ ~calls[k].ok /\ calls[k].token # << >>
    /\ get_full_text(heap[1]) = heap[1].tokens[1] \o heap[1].tokens[2]

\* C22: a get_tokens(k) call leaves the buffer as it is and returns the whole
\* token list for k <= 0, the tokens after the first k for 0 <= k <= len, and
\* the empty sequence for k > len.
C22_GetTokensIsSuffix ==
    [][(Len(calls') > Len(calls) /\ calls'[Len(calls')].kind = "get_tokens") =>
          LET k == calls'[Len(calls')].start_index
              result == calls'[Len(calls')].result
              tokens == heap[1].tokens
          IN  /\ heap' = heap
              /\ k <= 0 => result = tokens
              /\ (0 <= k /\ k <= Len(tokens)) =>
                     /\ Len(result) = Len(tokens) - k
                     /\ \A i \in 1..Len(result) : result[i] = tokens[k + i]
              /\ k > Len(tokens) => result = << >>]_vars

\* get_tokens was called on a buffer holding tokens with a negative index, with
\* an index inside the list and with an index past its end
C22_AllThreeRanges ==
    /\ heap # << >>
    /\ heap[1].tokens # << >>
    /\ \E i, j, k \in CallIds :
          /\ calls[i].kind = "get_tokens" /\ calls[i].start_index < 0
          /\ calls[i].result = heap[1].tokens
          /\ calls[j].kind = "get_tokens" /\ calls[j].start_index = 1
          /\ calls[k].kind = "get_tokens" /\ calls[k].start_index > Len(heap[1].tokens)
          /\ calls[k].result = << >>

\* C23: a sweep removes a room's buffer only if that buffer is complete and
\* its age is above the window given to the sweep; a buffer that is not
\* complete, or whose age is not above the window, stays registered, the same
\* object, and no buffer object is changed.
C23_SweepRemovesOnlyCompleteAndOld ==
    [][(Len(calls') > Len(calls) /\ calls'[Len(calls')].kind = "cleanup_old_buffers") =>
          /\ heap' = heap
          /\ \A r \in DOMAIN buffers :
                /\ buffers'[r] \in {0, buffers[r]}
                /\ (buffers[r] # 0 /\ buffers'[r] = 0) =>
                       /\ heap[buffers[r]].is_complete
                       /\ now - heap[buffers[r]].created_at
                              > calls'[Len(calls')].max_age_seconds]_vars

\* the last sweep removed the complete old buffer of one room and kept the
\* buffer of the other room, which is as old but not complete
C23_SweptOneKeptOther ==
    /\ calls # << >>
    /\ calls[Len(calls)].kind = "cleanup_old_buffers"
    /\ \E r, q \in ManagerRooms :
          /\ calls[Len(calls)].to_remove = {r}
          /\ buffers[r] = 0
          /\ buffers[q] # 0
          /\ ~heap[buffers[q]].is_complete
          /\ calls[Len(calls)].at - heap[buffers[q]].created_at
                 > calls[Len(calls)].max_age_seconds

\* C29: once the rows of a round are written (no submission comes after the
\* first confirmation) and until narration is asked for, the rows are
\* determined by how many confirmations of each actor arrived, not by their
\* order: of an actor's pre-rolled rows the latest n are at phase 2 after n
\* confirmations, each with the die it was pre-rolled with, final value
\* die + modifier and the outcome of that die; and all_dice_rolled is emitted
\* for a room only when every pre-rolled row of the room is confirmed.
C29_ConfirmOrderIrrelevant ==
    (/\ \A c \in CallIds : calls[c].kind \notin PhaseThreeKinds
     /\ \A s, c \in CallIds :
           (calls[s].kind \in {"submit_player_action", "commit_actions"}
              /\ calls[c].kind = "roll_dice") => s < c)
    => \A r \in Rooms :
          LET prerolled == {i \in 1..Len(judgments) :
                               judgments[i].session_id = r /\ judgments[i].phase # 1}
          IN  /\ \A i \in prerolled :
                    LET a == judgments[i].character_id
                        confirmations ==
                            {c \in CallIds : /\ calls[c].kind = "roll_dice"
                                             /\ calls[c].session_id = r
                                             /\ calls[c].actors[1] = a
                                             /\ calls[c].result.status = "ok"}
                        fromHere == {k \in prerolled : /\ judgments[k].character_id = a
                                                       /\ k >= i}
                    IN  /\ judgments[i].phase \in {0, 2}
                        /\ (judgments[i].phase = 2)
                              <=> Cardinality(fromHere) <= Cardinality(confirmations)
                        /\ judgments[i].final_value
                              = judgments[i].dice_result + judgments[i].modifier
                        /\ judgments[i].outcome
                              = determine_outcome(judgments[i].dice_result,
                                                  judgments[i].modifier,
                                                  judgments[i].difficulty)
              /\ (\E e \in emitted : e.event = "all_dice_rolled" /\ e.session_id = r)
                    => \A i \in prerolled : judgments[i].phase = 2

\* the two actors of one batch confirmed in the order opposite to the batch,
\* their dice differ, both rows are at phase 2 and all_dice_rolled was emitted
C29_ConfirmedInReverseOrder ==
    /\ Len(calls) = 3
    /\ calls[1].kind = "commit_actions"
    /\ calls[2].kind = "roll_dice" /\ calls[2].actors[1] = 2
    /\ calls[3].kind = "roll_dice" /\ calls[3].actors[1] = 1
    /\ calls[2].result.status = "ok" /\ calls[3].result.status = "ok"
    /\ Len(judgments) = 2
    /\ judgments[1].phase = 2 /\ judgments[2].phase = 2
    /\ judgments[1].dice_result # judgments[2].dice_result
    /\ \E e \in emitted : e.event = "all_dice_rolled"

\* C24: a record_dice_roll for a room without round state, or for an actor
\* who is not in the room's pending set, returns false and leaves the tracker
\* as it was; a die recorded before keeps its value.
C24_RollOutsidePendingIsNoOp ==
    [][(Len(calls') > Len(calls) /\ calls'[Len(calls')].kind = "record_dice_roll") =>
          LET r == calls'[Len(calls')].session_id
              a == calls'[Len(calls')].character_id
          IN  (r \notin DOMAIN session_states
                 \/ a \notin session_states[r].pending_characters) =>
                  /\ calls'[Len(calls')].result = FALSE
                  /\ session_states' = session_states
                  /\ round_counters' = round_counters
                  /\ (r \in DOMAIN session_states
                        /\ a \in DOMAIN session_states[r].dice_results) =>
                         session_states'[r].dice_results[a]
                            = session_states[r].dice_results[a]]_vars

\* an actor rolled twice with different dice: the first call returned true, the
\* second false, and the first die is the one on record; a roll for a room
\* that never had a round returned false
C24_SecondRollRefused ==
    \E i, k, m \in CallIds :
        /\ i < k
        /\ calls[i].kind = "record_dice_roll" /\ calls[k].kind = "record_dice_roll"
        /\ calls[i].session_id = calls[k].session_id
        /\ calls[i].character_id = calls[k].character_id
        /\ calls[i].dice_result # calls[k].dice_result
        /\ calls[i].result = TRUE /\ calls[k].result = FALSE
        /\ calls[i].session_id \in DOMAIN session_states
        /\ session_states[calls[i].session_id].dice_results[calls[i].character_id]
              = calls[i].dice_result
        /\ calls[m].kind = "record_dice_roll" /\ calls[m].result = FALSE
        /\ \A j \in CallIds : calls[j].kind = "initialize_round"
                                 => calls[j].session_id # calls[m].session_id

\* C25: for a room with an open round the pending set is what is left of the
\* actors the round was opened with once those with a recorded roll are taken
\* out, and check_all_rolled returns true exactly when it is empty; for a room
\* without round state check_all_rolled returns false and get_dice_results an
\* empty map. Neither lookup changes the tracker.
C25_AllRolledIffNonePending ==
    [][/\ \A r \in DOMAIN session_states' :
             LET inits == {i \in 1..Len(calls') : /\ calls'[i].kind = "initialize_round"
                                                   /\ calls'[i].session_id = r}
                 ids == calls'[SetMax(inits)].character_ids
                 opened == {ids[i] : i \in 1..Len(ids)}
             IN  /\ session_states'[r].pending_characters
                       = opened \ DOMAIN session_states'[r].dice_results
                 /\ check_all_rolled(session_states', r)
                       <=> opened \subseteq DOMAIN session_states'[r].dice_results
       /\ (Len(calls') > Len(calls) /\ calls'[Len(calls')].kind = "check_all_rolled") =>
             LET r == calls'[Len(calls')].session_id
             IN  /\ calls'[Len(calls')].result
                       = (r \in DOMAIN session_states
                            /\ session_states[r].pending_characters = {})
                 /\ UNCHANGED tracker
       /\ (Len(calls') > Len(calls) /\ calls'[Len(calls')].kind = "get_dice_results") =>
             LET r == calls'[Len(calls')].session_id
             IN  /\ r \notin DOMAIN session_states
                       => DOMAIN calls'[Len(calls')].result = {}
                 /\ r \in DOMAIN session_states
                       => calls'[Len(calls')].result = session_states[r].dice_results
                 /\ UNCHANGED tracker]_vars

\* check_all_rolled returned true for a room whose only opened actor rolled, and
\* false for a room that has no round state
C25_TrueWhenRolledFalseWhenUnknown ==
    \E i, k \in CallIds :
        /\ calls[i].kind = "check_all_rolled" /\ calls[i].result = TRUE
        /\ calls[i].session_id \in DOMAIN session_states
        /\ session_states[calls[i].session_id].rolled_characters # {}
        /\ calls[k].kind = "check_all_rolled" /\ calls[k].result = FALSE
        /\ calls[k].session_id \notin DOMAIN session_states
        /\ \A j \in CallIds : calls[j].session_id = calls[k].session_id => j = k

\* C26: an initialize_round returns a round id greater than every id an
\* earlier initialize_round returned for the same room, whatever tracker calls
\* came in between, and the room's round state afterwards is the new round:
\* the given actors pending, nobody rolled, no result.
C26_RoundIdsIncrease ==
    [][(Len(calls') > Len(calls) /\ calls'[Len(calls')].kind = "initialize_round") =>
          LET r == calls'[Len(calls')].session_id
              ids == calls'[Len(calls')].character_ids
          IN  /\ \A i \in CallIds :
                    (calls[i].kind = "initialize_round" /\ calls[i].session_id = r)
                        => calls'[Len(calls')].result > calls[i].result
              /\ session_states'[r] = RoundState(calls'[Len(calls')].result, ids)]_vars

\* C27: a reset_round of a room with round state removes it, so that the
\* pending set, the rolled set and the results read back empty, and leaves the
\* round counters as they are; the first initialize_round of the room after
\* the reset returns an id greater than the id of the round that was reset.
C27_ResetKeepsCounter ==
    [][/\ (Len(calls') > Len(calls) /\ calls'[Len(calls')].kind = "reset_round") =>
             LET r == calls'[Len(calls')].session_id
             IN  /\ get_pending_characters(session_states', r) = {}
                 /\ get_rolled_characters(session_states', r) = {}
                 /\ DOMAIN get_dice_results(session_states', r) = {}
                 /\ round_counters' = round_counters
       /\ (Len(calls') > Len(calls) /\ calls'[Len(calls')].kind = "initialize_round") =>
             LET r == calls'[Len(calls')].session_id
                 inits == {i \in CallIds : /\ calls[i].kind = "initialize_round"
                                           /\ calls[i].session_id = r}
             IN  \A k \in CallIds :
                    (/\ calls[k].kind = "reset_round"
                     /\ calls[k].session_id = r
                     /\ calls[k].result = TRUE
                     /\ \E i \in inits : i < k
                     /\ \A i \in inits : i < k)
                        => calls'[Len(calls')].result
                              > calls[SetMax(inits)].result]_vars

\* C28: a tracker call on one room leaves the round state and the round
\* counter of every other room as they were.
C28_OtherRoomsUntouched ==
    [][Len(calls') > Len(calls) =>
          \A q \in TrackerRooms \ {calls'[Len(calls')].session_id} :
              /\ (q \in DOMAIN session_states') = (q \in DOMAIN session_states)
              /\ q \in DOMAIN session_states => session_states'[q] = session_states[q]
              /\ (q \in DOMAIN round_counters') = (q \in DOMAIN round_counters)
              /\ q \in DOMAIN round_counters => round_counters'[q] = round_counters[q]]_vars

\* a room holds a round with a recorded roll, and after it was recorded another
\* room was opened and then cleared
C28_OtherRoomOpenedAndCleared ==
    \E i, j, k \in CallIds :
        /\ i < j /\ j < k
        /\ calls[i].kind = "record_dice_roll" /\ calls[i].result = TRUE
        /\ calls[j].kind = "initialize_round" /\ calls[k].kind = "clear_session"
        /\ calls[j].session_id # calls[i].session_id
        /\ calls[k].session_id = calls[j].session_id
        /\ calls[i].session_id \in DOMAIN session_states
        /\ calls[i].session_id \in DOMAIN round_counters
        /\ session_states[calls[i].session_id].dice_results[calls[i].character_id]
              = calls[i].dice_result

\* C30: determine_outcome returns critical_failure for a die of 1 and
\* critical_success for a die of 20, whatever the modifier and the difficulty;
\* for every other die it returns success when die + modifier >= difficulty
\* and failure when not, so only a natural 1 or 20 gives a critical result.
C30_OnlyNaturalsAreCritical ==
    \A c \in CallIds :
        (calls[c].kind = "determine_outcome" /\ calls[c].result # "pending") =>
            LET die == calls[c].args[1]
                modifier == calls[c].args[2]
                difficulty == calls[c].args[3]
            IN  /\ die = 1 => calls[c].result = "critical_failure"
                /\ die = 20 => calls[c].result = "critical_success"
                /\ (die \notin {1, 20} /\ die + modifier >= difficulty)
                       => calls[c].result = "success"
                /\ (die \notin {1, 20} /\ die + modifier < difficulty)
                       => calls[c].result = "failure"
                /\ calls[c].result \in {"critical_failure", "critical_success"}
                       => die \in {1, 20}

\* a natural 1 whose total reaches the difficulty was judged a critical failure
C30_NaturalOneBeatsTotal ==
    \E c \in CallIds :
        /\ calls[c].kind = "determine_outcome"
        /\ calls[c].args[1] = 1
        /\ calls[c].args[1] + calls[c].args[2] >= calls[c].args[3]
        /\ calls[c].result = "critical_failure"

\* C31: for every ability score in 1..30 the modifier m returned by the dice
\* system, and the one the analysis node computes for a character whose
\* mapped ability has that score, is the floor of (score - 10) / 2:
\* 2m <= score - 10 < 2m + 2.
C31_ModifierIsFloor ==
    \A c \in CallIds :
        /\ (calls[c].kind = "calculate_ability_modifier" /\ calls[c].pc = "done") =>
              /\ 2 * calls[c].result <= calls[c].args - 10
              /\ calls[c].args - 10 < 2 * calls[c].result + 2
        /\ (calls[c].kind = "_calculate_modifier" /\ calls[c].pc = "done") =>
              LET score == calls[c].args.character.scores[calls[c].args.action_type]
              IN  /\ 2 * calls[c].result <= score - 10
                  /\ score - 10 < 2 * calls[c].result + 2

\* a score of 7 gave -2 in the dice system and in the analysis node
C31_SevenGivesMinusTwo ==
    /\ Len(calls) = 3
    /\ calls[1].kind = "calculate_ability_modifier" /\ calls[1].pc = "done"
    /\ calls[1].args = 7 /\ calls[1].result = -2
    /\ calls[2].kind = "_calculate_modifier" /\ calls[2].pc = "done"
    /\ calls[2].args.character.scores[calls[2].args.action_type] = 7
    /\ calls[2].result = -2

\* C32: the modifier of every analysis that phase 1 returns is the ability
\* modifier of the action's ability plus the sum of the modifier deltas of the
\* character's status effects, i.e. what DiceSystem.calculate_modifier gives.
C32_ModifierCountsStatusEffects ==
    \A c \in CallIds :
        (calls[c].kind = "analyze_and_judge_actions" /\ calls[c].pc = "done") =>
            \A i \in 1..Len(calls[c].result.analyses) :
                LET analysis == calls[c].result.analyses[i]
                    character == calls[c].args.characters[analysis.character_id]
                IN  analysis.modifier =
                        calculate_ability_modifier(character.scores["dexterity"])
                            + SumSeq(character.status_effects)

\* C33: the analysis raises only when no action has a known character, never
\* because of the judge; when the judge raised or its answer holds no usable
\* array, every analysis has difficulty 15; and whatever the judge answered,
\* every returned difficulty lies in 5..30.
C33_JudgeNeverFailsAnalysis ==
    \A c \in CallIds :
        (calls[c].kind = "analyze_and_judge_actions" /\ calls[c].pc = "done") =>
            LET args == calls[c].args
                result == calls[c].result
            IN  /\ result.raised # "none" =>
                       \A i \in 1..Len(args.player_actions) :
                           args.player_actions[i] \notin DOMAIN args.characters
                /\ (result.raised = "none" /\ args.response.kind # "array") =>
                       \A i \in 1..Len(result.analyses) :
                           result.analyses[i].difficulty = DEFAULT_DIFFICULTY
                /\ (result.raised = "none" /\ args.response.kind = "array"
                        /\ \E i \in 1..Len(args.response.items) :
                               /\ args.response.items[i].kind = "str"
                               /\ \E j \in 1..Len(result.analyses) :
                                      result.analyses[j].character_id
                                          = args.response.items[i].character_id
                               /\ \A k \in (i + 1)..Len(args.response.items) :
                                      args.response.items[k].character_id
                                          # args.response.items[i].character_id) =>
                       \A i \in 1..Len(result.analyses) :
                           result.analyses[i].difficulty = DEFAULT_DIFFICULTY
                /\ \A i \in 1..Len(result.analyses) :
                       result.analyses[i].difficulty \in 5..30

\* the judge answered 99 for actor 1 and a difficulty that is no number for
\* actor 2: both analyses are returned with the default difficulty
C33_MalformedAnswerGivesDefault ==
    /\ Len(calls) = 1
    /\ calls[1].kind = "analyze_and_judge_actions"
    /\ calls[1].pc = "done"
    /\ calls[1].args.response.kind = "array"
    /\ calls[1].args.response.items
           = <<JudgeItem(1, "int", 99), JudgeItem(2, "str", 0)>>
    /\ calls[1].result.raised = "none"
    /\ Len(calls[1].result.analyses) = 2
    /\ \A i \in 1..2 : calls[1].result.analyses[i].difficulty = DEFAULT_DIFFICULTY

C35_RoundClosedOnce ==
    \A r \in Rooms :
        Submissions <= 1 =>
            Cardinality({e \in emitted : e.event = "all_dice_rolled" /\ e.session_id = r}) <= 1

\* C38: once every actor of the room's latest submission has had a roll_dice
\* call of theirs confirm and return after that submission, all_dice_rolled
\* has been emitted for the room by a call later than the submission, whatever
\* rows earlier rounds left at phase 0.
C38_RoundClosesDespiteStaleRows ==
    \A r \in Rooms :
        LET subs == {c \in CallIds : /\ calls[c].kind \in {"submit_player_action", "commit_actions"}
                                     /\ calls[c].session_id = r}
            s == SetMax(subs)
        IN  (/\ subs # {}
             /\ \A i \in 1..Len(calls[s].actors) :
                    \E c \in CallIds :
                        /\ c > s
                        /\ calls[c].kind = "roll_dice"
                        /\ calls[c].session_id = r
                        /\ calls[c].actors = <<calls[s].actors[i]>>
                        /\ calls[c].result.status = "ok"
                        /\ calls[c].pc = "done") =>
                \E e \in emitted :
                    e.event = "all_dice_rolled" /\ e.session_id = r /\ e.call > s

\* C36: every token of a buffer was produced by one generation, the task
\* started by the phase-1 call that created the buffer (each submission
\* creates one buffer, so buffer b belongs to the b-th submission).
C36_BufferHoldsOwnGeneration ==
    \A b \in 1..Len(heap) :
        LET subs == {c \in CallIds : calls[c].kind \in {"submit_player_action", "commit_actions"}}
            creator == CHOOSE c \in subs : Cardinality({d \in subs : d <= c}) = b
        IN  \A i \in 1..Len(heap[b].tokens) :
                calls[creator].started = heap[b].tokens[i][1] \div 10

\* C37: a request_narrative_stream call that streams from a buffer whose
\* producer task has left its wrapped function, in whatever way, eventually
\* returns.
C37_ConsumerEndsAfterProducer ==
    \A c \in 1..MaxCalls :
        (/\ c <= Len(calls)
         /\ calls[c].kind = "request_narrative_stream"
         /\ calls[c].buffer # 0
         /\ \E t \in TaskIds : /\ taskobj[t].buffer = calls[c].buffer
                                /\ taskobj[t].st \in {"finally", "done"})
            ~> (c <= Len(calls) /\ calls[c].pc = "done")

\* C39: in every state, every row that holds a die (the rows of the pre-roll
\* at phase 0, 2 or 3; a phase-1 row has none) has a die result in 1..20, a
\* final value equal to die + modifier and the outcome determine_outcome gives
\* for its die, modifier and difficulty.
C39_PrerolledRowsStayConsistent ==
    \A i \in 1..Len(judgments) :
        judgments[i].phase # 1 =>
            /\ judgments[i].dice_result \in 1..20
            /\ judgments[i].final_value = judgments[i].dice_result + judgments[i].modifier
            /\ judgments[i].outcome
                   = determine_outcome(judgments[i].dice_result, judgments[i].modifier,
                                       judgments[i].difficulty)

\* a pre-rolled 1 with modifier +3 was confirmed and then narrated by the
\* streaming path: the row is at phase 3 and still a critical failure
C39_NaturalOneNarrated ==
    /\ \A c \in CallIds : calls[c].kind # "trigger_story_generation"
    /\ \E i \in 1..Len(judgments) :
           /\ judgments[i].phase = 3
           /\ judgments[i].story_log_id # Null
           /\ judgments[i].dice_result = 1
           /\ judgments[i].modifier = 3
           /\ judgments[i].outcome = "critical_failure"

\* C40: in every state, for every room that has a round state, the pending
\* set and the rolled set are disjoint, their union is the roster given to the
\* initialize_round call that opened the round (the room's latest), and the
\* keys of the dice results are the rolled set.
C40_RoundSetsPartitionRoster ==
    \A r \in DOMAIN session_states :
        LET state == session_states[r]
            opened == {c \in CallIds : calls[c].kind = "initialize_round"
                                          /\ calls[c].session_id = r}
            roster == calls[SetMax(opened)].character_ids
        IN  /\ state.pending_characters \cap state.rolled_characters = {}
            /\ opened # {}
            /\ state.pending_characters \cup state.rolled_characters
                   = {roster[i] : i \in 1..Len(roster)}
            /\ DOMAIN state.dice_results = state.rolled_characters

\* a round of actors 1 and 2 in which actor 1 has rolled and actor 2 has not
C40_OneRolledOnePending ==
    /\ 1 \in DOMAIN session_states
    /\ session_states[1].pending_characters = {2}
    /\ session_states[1].rolled_characters = {1}
    /\ DOMAIN session_states[1].dice_results = {1}
    /\ \E c \in CallIds : calls[c].kind = "record_dice_roll" /\ calls[c].result = TRUE
====
